---- MODULE Spec2Model ----
(***************************************************************************)
(* Model of the schema form renderer of the compliance agent frontend      *)
(* (SchemaFormRenderer: getBaseType, generateDefaultValue,                 *)
(* handleValueChange, the Add / Remove handlers and the render walk).      *)
(*                                                                         *)
(* Document values are JavaScript values, tagged by kind:                  *)
(*   [k |-> "undefined"], [k |-> "null"], [k |-> "string", s |-> ..],      *)
(*   [k |-> "number", n |-> ..], [k |-> "object", f |-> key -> value],     *)
(*   [k |-> "array", e |-> sequence of values, p |-> name -> value]        *)
(* An array slot that was never assigned is [k |-> "hole"]; p holds the    *)
(* non-index properties a JavaScript array can carry.                      *)
(***************************************************************************)
EXTENDS Integers, Sequences, FiniteSets, TLC

\* ------------------------------------------------------------------ bounds
\* Longest address handed to handleValueChange.
MaxPathLen == 3
\* Largest array index used in an address.
MaxIndex == 1
\* Depth of nested calls after which the JavaScript engine raises RangeError
\* (maximum call stack size exceeded).
MaxStack == 8

\* ------------------------------------------------------------------ values
Undef == [k |-> "undefined"]
Null == [k |-> "null"]
Hole == [k |-> "hole"]
Str(s) == [k |-> "string", s |-> s]
Num(n) == [k |-> "number", n |-> n]
Obj(f) == [k |-> "object", f |-> f]
Arr(e) == [k |-> "array", e |-> e, p |-> <<>>]
ArrP(e, p) == [k |-> "array", e |-> e, p |-> p]
EmptyObj == Obj(<<>>)
EmptyArr == Arr(<<>>)
\* The error a call raises instead of returning.
RangeError == [k |-> "RangeError"]
SyntaxError == [k |-> "SyntaxError"]

\* typeof v === 'object' && v !== null
IsContainer(v) == v.k \in {"object", "array"}
\* v === undefined || v === null
IsNullish(v) == v.k \in {"undefined", "null"}

\* ---------------------------------------------------------------- addresses
\* A segment is a field name (a string) or an array index (a number).
Name(s) == [name |-> s]
Index(i) == [index |-> i]
IsIndex(seg) == "index" \in DOMAIN seg
\* The property key JavaScript derives from a number: String(i).
IndexKey(i) == CASE i = 0 -> "0" [] i = 1 -> "1" [] i = 2 -> "2"
                 [] i = 3 -> "3" [] OTHER -> "4"
ToKey(seg) == IF IsIndex(seg) THEN IndexKey(seg.index) ELSE seg.name

\* ---------------------------------------------------- JavaScript property access
\* level[key] on an object or an array.
ReadProp(level, seg) ==
    IF level.k = "object"
    THEN IF ToKey(seg) \in DOMAIN level.f THEN level.f[ToKey(seg)] ELSE Undef
    ELSE IF IsIndex(seg)
         THEN IF seg.index < Len(level.e) /\ level.e[seg.index + 1] # Hole
              THEN level.e[seg.index + 1] ELSE Undef
         ELSE IF seg.name \in DOMAIN level.p THEN level.p[seg.name] ELSE Undef

\* level[key] = v on an object or an array; an index past the end of an array
\* lengthens it and leaves holes in between.
WriteProp(level, seg, v) ==
    IF level.k = "object"
    THEN Obj([x \in DOMAIN level.f \cup {ToKey(seg)} |->
                 IF x = ToKey(seg) THEN v ELSE level.f[x]])
    ELSE IF IsIndex(seg)
         THEN ArrP([i \in 1..(IF seg.index < Len(level.e) THEN Len(level.e)
                                                         ELSE seg.index + 1) |->
                       IF i = seg.index + 1 THEN v
                       ELSE IF i <= Len(level.e) THEN level.e[i] ELSE Hole],
                   level.p)
         ELSE ArrP(level.e, [x \in DOMAIN level.p \cup {seg.name} |->
                                IF x = seg.name THEN v ELSE level.p[x]])

\* JSON.parse(JSON.stringify(v)) below the top level: a key whose value is
\* undefined is left out, an undefined or missing array element becomes null,
\* the non-index properties of an array are not written.
RECURSIVE JsonCopyInner(_)
JsonCopyInner(v) ==
    CASE v.k = "object" ->
           Obj([x \in {y \in DOMAIN v.f : v.f[y].k # "undefined"} |->
                   JsonCopyInner(v.f[x])])
      [] v.k = "array" ->
           Arr([i \in 1..Len(v.e) |->
                   IF v.e[i].k \in {"undefined", "hole"} THEN Null
                   ELSE JsonCopyInner(v.e[i])])
      [] OTHER -> v

\* JSON.parse(JSON.stringify(fullData)): JSON.stringify(undefined) is undefined,
\* which JSON.parse rejects with a SyntaxError.
JsonCopy(v) == IF v.k = "undefined" THEN SyntaxError ELSE JsonCopyInner(v)

\* ------------------------------------------------------------ handleValueChange
\* The marker of an early return (console.error; onDataChange is not called).
Dropped == [k |-> "dropped"]

\* WalkAndSet with the test for a missing child left out: the child is always
\* created anew.
RECURSIVE WalkAndSetFreshChild(_, _, _)
WalkAndSetFreshChild(parentLevel, path, value) ==
    IF ~IsContainer(parentLevel) THEN Dropped
    ELSE IF Len(path) = 0 THEN WriteProp(parentLevel, Name("undefined"), value)
    ELSE IF Len(path) = 1 THEN WriteProp(parentLevel, path[1], value)
    ELSE LET key == path[1]
             child == IF IsIndex(path[2]) THEN EmptyArr ELSE EmptyObj
             below == WalkAndSetFreshChild(child, Tail(path), value)
         IN  IF below = Dropped THEN Dropped
             ELSE WriteProp(parentLevel, key, below)

\* WalkAndSet creating an object for every missing intermediate.
RECURSIVE WalkAndSetCreatesObjects(_, _, _)
WalkAndSetCreatesObjects(parentLevel, path, value) ==
    IF ~IsContainer(parentLevel) THEN Dropped
    ELSE IF Len(path) = 0 THEN WriteProp(parentLevel, Name("undefined"), value)
    ELSE IF Len(path) = 1 THEN WriteProp(parentLevel, path[1], value)
    ELSE LET key == path[1]
             found == ReadProp(parentLevel, key)
             child == IF IsNullish(found) THEN EmptyObj ELSE found
             below == WalkAndSetCreatesObjects(child, Tail(path), value)
         IN  IF below = Dropped THEN Dropped
             ELSE WriteProp(parentLevel, key, below)

\* WalkAndSet creating the container also where a string or a number is found.
RECURSIVE WalkAndSetOverPrimitives(_, _, _)
WalkAndSetOverPrimitives(parentLevel, path, value) ==
    IF ~IsContainer(parentLevel) THEN Dropped
    ELSE IF Len(path) = 0 THEN WriteProp(parentLevel, Name("undefined"), value)
    ELSE IF Len(path) = 1 THEN WriteProp(parentLevel, path[1], value)
    ELSE LET key == path[1]
             found == ReadProp(parentLevel, key)
             child == IF ~IsContainer(found)
                      THEN IF IsIndex(path[2]) THEN EmptyArr ELSE EmptyObj
                      ELSE found
             below == WalkAndSetOverPrimitives(child, Tail(path), value)
         IN  IF below = Dropped THEN Dropped
             ELSE WriteProp(parentLevel, key, below)

\* The walk of handleValueChange from parentLevel along path: the loop body for
\* every segment but the last, then the assignment of the last one. The result
\* is parentLevel after the writes, or Dropped.
RECURSIVE WalkAndSet(_, _, _)
WalkAndSet(parentLevel, path, value) ==
    IF ~IsContainer(parentLevel) THEN Dropped
    ELSE IF Len(path) = 0 THEN WriteProp(parentLevel, Name("undefined"), value)
    ELSE IF Len(path) = 1 THEN WriteProp(parentLevel, path[1], value)
    ELSE LET key == path[1]
             found == ReadProp(parentLevel, key)
             child == IF IsNullish(found)
                      THEN IF IsIndex(path[2]) THEN EmptyArr ELSE EmptyObj
                      ELSE found
             below == WalkAndSet(child, Tail(path), value)
         IN  IF below = Dropped THEN Dropped
             ELSE WriteProp(parentLevel, key, below)

\* handleValueChange(currentPath, value) of a renderer holding fullData:
\* called tells whether onDataChange was called, newData is its argument.
handleValueChange(fullData, currentPath, value) ==
    LET copy == JsonCopy(fullData)
        after == IF copy = SyntaxError THEN Dropped
                 ELSE WalkAndSet(copy, currentPath, value)
    IN  [threw |-> copy = SyntaxError,
         called |-> after # Dropped,
         newData |-> IF after = Dropped THEN fullData ELSE after]

\* ------------------------------------------------------------------ schemas
\* The Zod schema graph, one record per schema object; a schema is named by its
\* identifier. "lazy" holds the schema its getter returns, "default" the wrapped
\* schema and the carried value.
ZString == [typeName |-> "ZodString"]
ZNumber(checks) == [typeName |-> "ZodNumber", checks |-> checks]
ZBoolean == [typeName |-> "ZodBoolean"]
ZArray(element) == [typeName |-> "ZodArray", element |-> element]
ZObject(shape) == [typeName |-> "ZodObject", shape |-> shape]
ZDefault(innerType, defaultValue) ==
    [typeName |-> "ZodDefault", innerType |-> innerType, defaultValue |-> defaultValue]
ZOptional(innerType) == [typeName |-> "ZodOptional", innerType |-> innerType]
ZLazy(getter) == [typeName |-> "ZodLazy", getter |-> getter]
MinCheck(n) == [kind |-> "min", value |-> n]
MaxCheck(n) == [kind |-> "max", value |-> n]

\* The schemas of backend/src/schemas (ComplianceContentSchema and its parts).
RepositorySchemas ==
    [ComplianceContentSchema |->
         ZObject([general |-> "GeneralSchema",
                  lawsAndRegulations |-> "LawsArray",
                  dataPoints |-> "DataPointsArray",
                  threatsAndVulnerabilities |-> "ThreatsArray"]),
     GeneralSchema |-> ZObject([description |-> "StringLeaf"]),
     LawsArray |-> ZArray("StringLeaf"),
     DataPointsArray |-> ZArray("DataPointSchema"),
     DataPointSchema |-> ZObject([name |-> "StringLeaf", cia |-> "CiaSchema"]),
     CiaSchema |-> ZObject([confidentiality |-> "RatingLeaf",
                            integrity |-> "RatingLeaf",
                            availability |-> "RatingLeaf"]),
     ThreatsArray |-> ZArray("ThreatVulnerabilitySchema"),
     ThreatVulnerabilitySchema |->
         ZObject([description |-> "StringLeaf", mitigations |-> "MitigationsArray"]),
     MitigationsArray |-> ZArray("LazyMitigation"),
     LazyMitigation |-> ZLazy("MitigationSchema"),
     MitigationSchema |-> ZObject([description |-> "StringLeaf"]),
     StringLeaf |-> ZString,
     RatingLeaf |-> ZNumber({MinCheck(1), MaxCheck(4)})]

\* Further schemas the renderer is applied to: the items / name / rating schema,
\* number leaves with other bounds, a defaulted leaf, an object with a boolean
\* field, the threat schema of frontend/src/schema.ts with its optional array,
\* wrappers nested in each order, object schemas that refer to themselves or to
\* each other through z.lazy, and z.lazy chains that reach no other schema.
SampleSchemas ==
    [ItemsSchema |-> ZObject([items |-> "ItemsArray"]),
     ItemsArray |-> ZArray("ItemSchema"),
     ItemSchema |-> ZObject([name |-> "StringLeaf", rating |-> "RatingLeaf"]),
     PlainNumber |-> ZNumber({}),
     AtLeastTwo |-> ZNumber({MinCheck(2)}),
     StockSchema |-> ZObject([count |-> "PlainNumber", reserve |-> "AtLeastTwo"]),
     ProfileSchema |-> ZObject([account |-> "AccountSchema"]),
     AccountSchema |-> ZObject([name |-> "StringLeaf", active |-> "ActiveFlag"]),
     ActiveFlag |-> ZBoolean,
     FrontendContentSchema |->
         ZObject([threatsAndVulnerabilities |-> "FrontendThreatsArray"]),
     FrontendThreatsArray |-> ZArray("FrontendThreatSchema"),
     FrontendThreatSchema |->
         ZObject([description |-> "StringLeaf", relatedDataPoints |-> "OptionalNames"]),
     OptionalNames |-> ZOptional("LawsArray"),
     OptionalDefaulted |-> ZOptional("DefaultedName"),
     DefaultedOptional |-> ZDefault("OptionalNames", EmptyArr),
     LazyDefaulted |-> ZLazy("DefaultedName"),
     DefaultedRating |-> ZDefault("RatingLeaf", Num(3)),
     DefaultedLaws |-> ZDefault("LawsArray", Arr(<<Str("GDPR")>>)),
     DefaultedGeneral |->
         ZDefault("GeneralSchema", Obj([description |-> Str("n/a")])),
     DefaultedLazy |->
         ZDefault("LazyMitigation", Obj([description |-> Str("n/a")])),
     DefaultedTwice |-> ZDefault("DefaultedName", Str("none")),
     LazySelf |-> ZLazy("LazySelf"),
     LazyPing |-> ZLazy("LazyPong"),
     LazyPong |-> ZLazy("LazyPing"),
     NonPositive |-> ZNumber({MaxCheck(0)}),
     DefaultedName |-> ZDefault("StringLeaf", Str("n/a")),
     CategorySchema |-> ZObject([name |-> "StringLeaf", parent |-> "LazyCategory"]),
     LazyCategory |-> ZLazy("CategorySchema"),
     OwnerSchema |-> ZObject([name |-> "StringLeaf", asset |-> "LazyAsset"]),
     LazyAsset |-> ZLazy("AssetSchema"),
     AssetSchema |-> ZObject([name |-> "StringLeaf", owner |-> "LazyOwner"]),
     LazyOwner |-> ZLazy("OwnerSchema")]

Schemas == RepositorySchemas @@ SampleSchemas
SchemaIds == DOMAIN Schemas

\* What a failed lookup (shape[key] of a missing key) yields instead of a schema.
NoSchema == "undefined"
\* What a schema function yields when the call stack is exhausted.
StackOverflow == "RangeError"

\* getBaseType without the ZodDefault case: only z.lazy is unwrapped.
RECURSIVE getBaseTypeLazyOnly(_, _)
getBaseTypeLazyOnly(schema, d) ==
    IF d > MaxStack THEN StackOverflow
    ELSE IF Schemas[schema].typeName = "ZodLazy"
         THEN getBaseTypeLazyOnly(Schemas[schema].getter, d + 1)
    ELSE schema

\* getBaseType(schema), called at call depth d.
RECURSIVE getBaseType(_, _)
getBaseType(schema, d) ==
    IF d > MaxStack THEN StackOverflow
    ELSE IF Schemas[schema].typeName = "ZodDefault"
         THEN getBaseType(Schemas[schema].innerType, d + 1)
    ELSE IF Schemas[schema].typeName = "ZodLazy"
         THEN getBaseType(Schemas[schema].getter, d + 1)
    ELSE schema

\* baseType._def.checks.find(check => check.kind === 'min')
MinChecks(base) == {c \in Schemas[base].checks : c.kind = "min"}
MaxChecks(base) == {c \in Schemas[base].checks : c.kind = "max"}

\* generateDefaultValue with 0 for a number without a min check.
RECURSIVE generateDefaultValueZero(_, _)
generateDefaultValueZero(schema, d) ==
    IF d > MaxStack THEN RangeError
    ELSE LET baseType == getBaseType(schema, d + 1)
         IN  IF baseType = StackOverflow THEN RangeError
             ELSE CASE Schemas[baseType].typeName = "ZodString" -> Str("")
                    [] Schemas[baseType].typeName = "ZodNumber" ->
                         IF MinChecks(baseType) # {}
                         THEN Num((CHOOSE c \in MinChecks(baseType) : TRUE).value)
                         ELSE Num(0)
                    [] Schemas[baseType].typeName = "ZodArray" -> EmptyArr
                    [] Schemas[baseType].typeName = "ZodObject" ->
                         LET shape == Schemas[baseType].shape
                             defaultObject ==
                                 [key \in DOMAIN shape |->
                                     generateDefaultValueZero(shape[key], d + 1)]
                         IN  IF \E key \in DOMAIN shape : defaultObject[key] = RangeError
                             THEN RangeError
                             ELSE Obj(defaultObject)
                    [] OTHER -> Undef

\* generateDefaultValue(schema), called at call depth d; RangeError when the
\* recursion exhausts the call stack.
RECURSIVE generateDefaultValue(_, _)
generateDefaultValue(schema, d) ==
    IF d > MaxStack THEN RangeError
    ELSE LET baseType == getBaseType(schema, d + 1)
         IN  IF baseType = StackOverflow THEN RangeError
             ELSE CASE Schemas[baseType].typeName = "ZodString" -> Str("")
                    [] Schemas[baseType].typeName = "ZodNumber" ->
                         IF MinChecks(baseType) # {}
                         THEN Num((CHOOSE c \in MinChecks(baseType) : TRUE).value)
                         ELSE Num(1)
                    [] Schemas[baseType].typeName = "ZodArray" -> EmptyArr
                    [] Schemas[baseType].typeName = "ZodObject" ->
                         LET shape == Schemas[baseType].shape
                             defaultObject ==
                                 [key \in DOMAIN shape |->
                                     generateDefaultValue(shape[key], d + 1)]
                         IN  IF \E key \in DOMAIN shape : defaultObject[key] = RangeError
                             THEN RangeError
                             ELSE Obj(defaultObject)
                    [] OTHER -> Undef

\* ------------------------------------------------------------------- render
\* The tree SchemaFormRenderer renders, as the set of its nodes. A node holds
\* its path, what was rendered there (kind), the schema rendered and the data
\* prop. kind is "object", "array", "string", "number", "unsupported" (the
\* fallback), "invalidInitialPath" or "schemaNotFound" (the two error returns of
\* the schema determination) or "RangeError" (the call stack is exhausted).
RenderNode(kind, path, schema, data) ==
    [kind |-> kind, path |-> path, schema |-> schema, data |-> data]

\* The schema determination at the top of SchemaFormRenderer.
SchemaToRender(schema, path, d) ==
    IF Len(path) = 1
    THEN LET baseSchema == getBaseType(schema, d + 1)
         IN  IF baseSchema = StackOverflow THEN StackOverflow
             ELSE IF Schemas[baseSchema].typeName = "ZodObject" /\ ~IsIndex(path[1])
                  THEN IF path[1].name \in DOMAIN Schemas[baseSchema].shape
                       THEN Schemas[baseSchema].shape[path[1].name]
                       ELSE NoSchema
                  ELSE "invalidInitialPath"
    ELSE schema

\* Array.isArray(data) ? data : [], as the indices map() visits: the holes of
\* an array are skipped.
RenderedIndices(data) ==
    IF data.k = "array" THEN {i \in 1..Len(data.e) : data.e[i] # Hole} ELSE {}

\* SchemaFormRenderer({schema, data, path}) called at call depth d.
RECURSIVE Render(_, _, _, _)
Render(schema, data, path, d) ==
    IF d > MaxStack THEN {RenderNode("RangeError", path, schema, data)}
    ELSE LET schemaToRender == SchemaToRender(schema, path, d)
         IN
         IF schemaToRender = StackOverflow
         THEN {RenderNode("RangeError", path, schema, data)}
         ELSE IF schemaToRender = "invalidInitialPath"
         THEN {RenderNode("invalidInitialPath", path, schema, data)}
         ELSE IF schemaToRender = NoSchema
         THEN {RenderNode("schemaNotFound", path, schema, data)}
         ELSE
         LET baseSchema == getBaseType(schemaToRender, d + 1) IN
         IF baseSchema = StackOverflow
         THEN {RenderNode("RangeError", path, schema, data)}
         ELSE
         CASE Schemas[baseSchema].typeName = "ZodObject" ->
                LET shape == Schemas[baseSchema].shape
                    fieldData(key) ==
                        IF data.k = "object" /\ key \in DOMAIN data.f
                        THEN data.f[key] ELSE Undef
                IN  {RenderNode("object", path, baseSchema, data)} \cup
                    UNION {Render(shape[key], fieldData(key),
                                  Append(path, Name(key)), d + 1) :
                           key \in DOMAIN shape}
           [] Schemas[baseSchema].typeName = "ZodArray" ->
                {RenderNode("array", path, baseSchema, data)} \cup
                UNION {Render(Schemas[baseSchema].element, data.e[i],
                              Append(path, Index(i - 1)), d + 1) :
                       i \in RenderedIndices(data)}
           [] Schemas[baseSchema].typeName = "ZodString" ->
                {RenderNode("string", path, baseSchema, data)}
           [] Schemas[baseSchema].typeName = "ZodNumber" ->
                {RenderNode("number", path, baseSchema, data)}
           [] OTHER -> {RenderNode("unsupported", path, baseSchema, data)}

\* The data prop the caller pairs with the path it renders: the document for the
\* empty path, document[tab] for the path [tab] (App renders
\* data = complianceData[activeTab] at path = [activeTab]).
DataAt(document, path) ==
    IF Len(path) = 0 THEN document
    ELSE IF IsContainer(document) THEN ReadProp(document, path[1]) ELSE Undef

\* build(schema, document, address): the render of the root schema from a
\* starting path.
Build(schema, document, path) == Render(schema, DataAt(document, path), path, 0)

\* The array nodes of a render: those that carry Add and Remove buttons.
ArrayNodes(nodes) == {n \in nodes : n.kind = "array"}

\* ------------------------------------------------------------ Add and Remove
\* Array.isArray(data) ? data : []
ArrayData(data) == IF data.k = "array" THEN data.e ELSE <<>>

\* [...arrayData, newItem]: spreading reads every index, so a hole becomes
\* undefined.
Spread(arrayData) ==
    [i \in 1..Len(arrayData) |-> IF arrayData[i] = Hole THEN Undef ELSE arrayData[i]]

\* filter with the test inverted: (_, i) => i === index.
RECURSIVE FilterKeepOnly(_, _, _)
FilterKeepOnly(arrayData, index, i) ==
    IF i > Len(arrayData) THEN <<>>
    ELSE IF i - 1 # index \/ arrayData[i] = Hole
         THEN FilterKeepOnly(arrayData, index, i + 1)
         ELSE <<arrayData[i]>> \o FilterKeepOnly(arrayData, index, i + 1)

\* filter with the test (_, i) => i < index: the element and all after it go.
RECURSIVE FilterBelow(_, _, _)
FilterBelow(arrayData, index, i) ==
    IF i > Len(arrayData) THEN <<>>
    ELSE IF i - 1 >= index \/ arrayData[i] = Hole
         THEN FilterBelow(arrayData, index, i + 1)
         ELSE <<arrayData[i]>> \o FilterBelow(arrayData, index, i + 1)

\* arrayData.filter((_, i) => i !== index): the holes are not visited and are
\* not part of the result.
RECURSIVE FilterOut(_, _, _)
FilterOut(arrayData, index, i) ==
    IF i > Len(arrayData) THEN <<>>
    ELSE IF i - 1 = index \/ arrayData[i] = Hole
         THEN FilterOut(arrayData, index, i + 1)
         ELSE <<arrayData[i]>> \o FilterOut(arrayData, index, i + 1)

\* The Add onClick with the new item put first: [newItem, ...arrayData].
AddOnClickInFront(fullData, n) ==
    LET newItem == generateDefaultValue(Schemas[n.schema].element, 0)
        newArray == Arr(<<newItem>> \o Spread(ArrayData(n.data)))
    IN  IF newItem = RangeError
        THEN [threw |-> TRUE, called |-> FALSE, newData |-> fullData]
        ELSE handleValueChange(fullData, n.path, newArray)

\* The onClick of the Add button of array node n.
AddOnClick(fullData, n) ==
    LET newItem == generateDefaultValue(Schemas[n.schema].element, 0)
        newArray == Arr(Append(Spread(ArrayData(n.data)), newItem))
    IN  IF newItem = RangeError
        THEN [threw |-> TRUE, called |-> FALSE, newData |-> fullData]
        ELSE handleValueChange(fullData, n.path, newArray)

\* The onClick of the Remove button of element index of array node n.
RemoveOnClick(fullData, n, index) ==
    LET newArray == Arr(FilterOut(ArrayData(n.data), index, 1))
    IN  handleValueChange(fullData, n.path, newArray)

\* ------------------------------------------------------------------- inputs
FieldNames == {"items", "name", "rating"}
Segments == {Name(s) : s \in FieldNames} \cup {Index(i) : i \in 0..MaxIndex}
Addresses == UNION {[1..n -> Segments] : n \in 0..MaxPathLen}
EditValues == {Str("PII store"), Num(4), Null}

\* The root schemas a document is rendered with.
RootSchemas ==
    {"ItemsSchema", "ComplianceContentSchema", "CategorySchema", "ProfileSchema",
     "FrontendContentSchema"}

\* The documents an engine call is given: every shape of the items / name /
\* rating document, whole, with parts missing, and with values of the wrong
\* kind at every depth.
ItemObjects ==
    {Obj(f) : f \in UNION {[keys -> {Str("db"), Num(2), Null}] :
                            keys \in SUBSET {"name", "rating"}}}
Elements == ItemObjects \cup {Null, Str("db"), EmptyArr}
ItemsValues ==
    {Arr(<<>>)} \cup {Arr(<<e>>) : e \in Elements}
    \cup {Arr(<<e1, e2>>) : e1 \in {Obj([name |-> Str("db"), rating |-> Num(2)]), Null},
                            e2 \in {Obj([name |-> Str("db"), rating |-> Num(2)]), EmptyObj}}
    \cup {Null, Str("db"), Num(2), EmptyObj, Obj([name |-> Str("db")])}
InitDocs ==
    {EmptyObj} \cup {Obj([items |-> v]) : v \in ItemsValues}
    \cup {Obj([items |-> EmptyArr, name |-> Str("db")])}
    \cup {Null, Str("db"), Num(2), EmptyArr,
          Arr(<<Obj([name |-> Str("db"), rating |-> Num(2)])>>)}
    \cup {Obj([threatsAndVulnerabilities |-> Arr(<<Obj(f)>>)]) :
              f \in {[description |-> Str("db")],
                     [description |-> Str("db"), mitigations |-> EmptyArr],
                     [description |-> Str("db"),
                      mitigations |-> Arr(<<Obj([description |-> Str("db")])>>)]}}

\* fullData: the document the renderer holds (App's complianceData); last: the
\* last engine call, its arguments and its outcome; pc: where the run of calls
\* stands; heap: the object store, used where the identity of objects matters
\* (HeapSpec), in which fullData is a reference into it; app: the rest of the
\* state of App (AppSpec): the local storage items, the error shown and
\* isInitialLoad.
VARIABLES fullData, last, pc, heap, app, agent
vars == <<fullData, last, pc, heap, app, agent>>

NoCall == [op |-> "none"]
\* The renderer on its own, outside App.
NoApp == [mounted |-> FALSE]
\* The renderer and App on their own, with no call of the backend.
NoAgent == [called |-> FALSE]

Init ==
    /\ agent = NoAgent
    /\ fullData \in InitDocs
    /\ last = NoCall
    /\ pc = "idle"
    /\ heap = <<>>
    /\ app = NoApp

\* set(document, address, value): handleValueChange with an arbitrary address.
Set(path, value) ==
    /\ pc = "idle"
    /\ LET r == handleValueChange(fullData, path, value)
       IN  /\ fullData' = r.newData
           /\ last' = [op |-> "set", before |-> fullData, path |-> path,
                       value |-> value, called |-> r.called, threw |-> r.threw]
    /\ pc' = "done"
    /\ UNCHANGED <<heap, app, agent>>

\* The starting paths of a render of root: the default empty path and, as in
\* App, the path of one field of the root schema.
StartPaths(root) ==
    {<<>>} \cup {<<Name(key)>> : key \in DOMAIN Schemas[root].shape}

\* insertArrayItem(document, address): the Add button of an array node of the
\* render of root from start.
Add(root, start) ==
    /\ pc = "idle"
    /\ \E n \in ArrayNodes(Build(root, fullData, start)) :
           LET r == AddOnClick(fullData, n)
           IN  /\ fullData' = r.newData
               /\ last' = [op |-> "add", before |-> fullData, path |-> n.path,
                           root |-> root, start |-> start, data |-> n.data,
                           called |-> r.called, threw |-> r.threw]
    /\ pc' = "added"
    /\ UNCHANGED <<heap, app, agent>>

\* removeArrayItem(document, address, index): a Remove button of an array node.
Remove(root, start) ==
    /\ pc \in {"idle", "added"}
    /\ pc = "added" => root = last.root /\ start = last.start
    /\ \E n \in ArrayNodes(Build(root, fullData, start)) :
       \E i \in RenderedIndices(n.data) :
           LET r == RemoveOnClick(fullData, n, i - 1)
           IN  /\ fullData' = r.newData
               /\ last' = [op |-> "remove", before |-> fullData, path |-> n.path,
                           root |-> root, start |-> start, data |-> n.data,
                           index |-> i - 1, prior |-> last,
                           called |-> r.called, threw |-> r.threw]
    /\ pc' = "done"
    /\ UNCHANGED <<heap, app, agent>>

\* synthesize(schema): generateDefaultValue of one schema.
Synthesize(schema) ==
    /\ pc = "idle"
    /\ LET v == generateDefaultValue(schema, 0)
       IN  last' = [op |-> "synthesize", schema |-> schema, result |-> v,
                    threw |-> v = RangeError]
    /\ pc' = "done"
    /\ UNCHANGED <<fullData, heap, app, agent>>

\* build(schema, document, address): one render.
BuildTree(root, start) ==
    /\ pc = "idle"
    /\ LET nodes == Build(root, fullData, start)
       IN  last' = [op |-> "build", root |-> root, start |-> start,
                    nodes |-> nodes,
                    threw |-> \E n \in nodes : n.kind = "RangeError"]
    /\ pc' = "done"
    /\ UNCHANGED <<fullData, heap, app, agent>>

Next ==
    \/ \E path \in Addresses, value \in EditValues : Set(path, value)
    \/ \E root \in RootSchemas : \E start \in StartPaths(root) : Add(root, start)
    \/ \E root \in RootSchemas : \E start \in StartPaths(root) : Remove(root, start)
    \/ \E schema \in SchemaIds : Synthesize(schema)
    \/ \E root \in RootSchemas : \E start \in StartPaths(root) : BuildTree(root, start)

Spec == Init /\ [][Next]_vars

\* ------------------------------------------------------------------ reading
\* get(document, address), as the renderer hands data down: a field is read
\* from a plain object only, an element from an array only; anything else,
\* a missing key and an index out of range read as undefined.
RECURSIVE Get(_, _)
Get(document, address) ==
    IF address = <<>> THEN document
    ELSE LET seg == Head(address)
             child == IF IsIndex(seg)
                      THEN IF document.k = "array" /\ seg.index < Len(document.e)
                              /\ document.e[seg.index + 1] # Hole
                           THEN document.e[seg.index + 1] ELSE Undef
                      ELSE IF document.k = "object" /\ seg.name \in DOMAIN document.f
                           THEN document.f[seg.name] ELSE Undef
         IN  Get(child, Tail(address))

\* document?.[a]?.[b]...: the JavaScript property read along an address.
RECURSIVE RawGet(_, _)
RawGet(document, address) ==
    IF address = <<>> THEN document
    ELSE IF ~IsContainer(document) THEN Undef
    ELSE RawGet(ReadProp(document, Head(address)), Tail(address))

\* --------------------------------------------------------------- the heap
\* JavaScript objects and arrays have identity: a variable holds a reference,
\* and a write through one reference is seen through every other. The heap maps
\* an address to a cell, an object or array whose container children are
\* references [k |-> "ref", a |-> address]. An address is <<generation, what
\* allocated it, path>>.
Ref(a) == [k |-> "ref", a |-> a]
Link(v, a) == IF IsContainer(v) THEN Ref(a) ELSE v

\* The paths of the objects and arrays of tree t.
RECURSIVE ContainerPaths(_)
ContainerPaths(t) ==
    CASE t.k = "object" ->
           {<<>>} \cup UNION {{<<Name(key)>> \o q : q \in ContainerPaths(t.f[key])} :
                              key \in DOMAIN t.f}
      [] t.k = "array" ->
           {<<>>} \cup UNION {{<<Index(i - 1)>> \o q : q \in ContainerPaths(t.e[i])} :
                              i \in 1..Len(t.e)}
                  \cup UNION {{<<Name(key)>> \o q : q \in ContainerPaths(t.p[key])} :
                              key \in DOMAIN t.p}
      [] OTHER -> {}

\* The cell of container sub, which lies at path at of a tree allocated as
\* generation g by who.
CellOf(sub, g, who, at) ==
    IF sub.k = "object"
    THEN Obj([key \in DOMAIN sub.f |->
                 Link(sub.f[key], <<g, who, Append(at, Name(key))>>)])
    ELSE ArrP([i \in 1..Len(sub.e) |->
                  Link(sub.e[i], <<g, who, Append(at, Index(i - 1))>>)],
              [key \in DOMAIN sub.p |->
                  Link(sub.p[key], <<g, who, Append(at, Name(key))>>)])

\* The cells of a freshly built tree t, and the value that refers to it.
Cells(t, g, who) ==
    [a \in {<<g, who, q>> : q \in ContainerPaths(t)} |->
        CellOf(RawGet(t, a[3]), g, who, a[3])]
Allocated(t, g, who) == Link(t, <<g, who, <<>>>>)

\* The tree a value stands for in heap h: the structural snapshot.
RECURSIVE Deref(_, _)
Deref(h, v) ==
    IF v.k # "ref" THEN v
    ELSE LET c == h[v.a] IN
         IF c.k = "object"
         THEN Obj([key \in DOMAIN c.f |-> Deref(h, c.f[key])])
         ELSE ArrP([i \in 1..Len(c.e) |-> Deref(h, c.e[i])],
                   [key \in DOMAIN c.p |-> Deref(h, c.p[key])])

\* The addresses of the cells reachable from a value.
RECURSIVE ReachableCells(_, _)
ReachableCells(h, v) ==
    IF v.k # "ref" THEN {}
    ELSE LET c == h[v.a] IN
         {v.a} \cup
         (IF c.k = "object"
          THEN UNION {ReachableCells(h, c.f[key]) : key \in DOMAIN c.f}
          ELSE UNION {ReachableCells(h, c.e[i]) : i \in 1..Len(c.e)}
               \cup UNION {ReachableCells(h, c.p[key]) : key \in DOMAIN c.p})

\* document?.[a]?.[b]... through references.
RECURSIVE HeapGet(_, _, _)
HeapGet(h, v, address) ==
    IF address = <<>> THEN v
    ELSE IF v.k # "ref" THEN Undef
    ELSE HeapGet(h, ReadProp(h[v.a], Head(address)), Tail(address))

\* const newData = JSON.parse(JSON.stringify(fullData)): a tree of new objects.
AliasedData(h, fullDataRef, g) ==
    [heap |-> h, newData |-> fullDataRef, threw |-> FALSE]
DeepCopiedData(h, fullDataRef, g) ==
    LET copy == JsonCopy(Deref(h, fullDataRef))
    IN  IF copy = SyntaxError
        THEN [heap |-> h, newData |-> Undef, threw |-> TRUE]
        ELSE [heap |-> h @@ Cells(copy, g, "copy"),
              newData |-> Allocated(copy, g, "copy"), threw |-> FALSE]

\* The walk of handleValueChange on the heap: every assignment writes the cell
\* parentLevel refers to. written collects the addresses of the cells written.
RECURSIVE HeapWalkAndSet(_, _, _, _, _, _)
HeapWalkAndSet(h, parentLevel, path, value, g, written) ==
    IF parentLevel.k # "ref"
    THEN [dropped |-> TRUE, heap |-> h, written |-> written]
    ELSE IF Len(path) <= 1
    THEN [dropped |-> FALSE,
          heap |-> [h EXCEPT ![parentLevel.a] =
                       WriteProp(@, IF Len(path) = 0 THEN Name("undefined")
                                    ELSE path[1], value)],
          written |-> written \cup {parentLevel.a}]
    ELSE LET key == path[1]
             found == ReadProp(h[parentLevel.a], key)
             created == <<g, "created", path>>
         IN  IF IsNullish(found)
             THEN HeapWalkAndSet(
                      [a \in DOMAIN h \cup {created} |->
                          IF a = created
                          THEN IF IsIndex(path[2]) THEN EmptyArr ELSE EmptyObj
                          ELSE IF a = parentLevel.a
                          THEN WriteProp(h[a], key, Ref(created))
                          ELSE h[a]],
                      Ref(created), Tail(path), value, g,
                      written \cup {parentLevel.a})
             ELSE HeapWalkAndSet(h, found, Tail(path), value, g, written)

\* handleValueChange(currentPath, value) on the heap, as generation g.
HeapHandleValueChange(h, fullDataRef, currentPath, value, g) ==
    LET copied == DeepCopiedData(h, fullDataRef, g)
        walked == HeapWalkAndSet(copied.heap, copied.newData, currentPath,
                                 value, g, {})
    IN  IF copied.threw
        THEN [threw |-> TRUE, called |-> FALSE, heap |-> h,
              newData |-> fullDataRef, written |-> {}]
        ELSE [threw |-> FALSE, called |-> ~walked.dropped, heap |-> walked.heap,
              newData |-> IF walked.dropped THEN fullDataRef ELSE copied.newData,
              written |-> walked.written]

\* The data prop of array node n, as the renderer holds it: the elements of the
\* array of fullData itself, not of a copy.
HeapArrayData(h, fullDataRef, n) ==
    IF n.data.k = "array" THEN h[HeapGet(h, fullDataRef, n.path).a].e ELSE <<>>

\* The Add onClick on the heap: newArray is a new array that holds the elements
\* of arrayData themselves and a newly built item.
HeapAddOnClick(h, fullDataRef, n, g) ==
    LET newItem == generateDefaultValue(Schemas[n.schema].element, 0)
        newArray == <<g, "newArray", <<>>>>
        h1 == h @@ Cells(newItem, g, "newItem")
                @@ [a \in {newArray} |->
                       Arr(Append(Spread(HeapArrayData(h, fullDataRef, n)),
                                  Allocated(newItem, g, "newItem")))]
    IN  HeapHandleValueChange(h1, fullDataRef, n.path, Ref(newArray), g)

\* The Remove onClick on the heap.
HeapRemoveOnClick(h, fullDataRef, n, index, g) ==
    LET newArray == <<g, "newArray", <<>>>>
        h1 == h @@ [a \in {newArray} |->
                       Arr(FilterOut(HeapArrayData(h, fullDataRef, n), index, 1))]
    IN  HeapHandleValueChange(h1, fullDataRef, n.path, Ref(newArray), g)

\* The documents the heap is started with.
HeapDocs ==
    {EmptyObj,
     Obj([items |-> EmptyArr]),
     Obj([items |-> Arr(<<Obj([name |-> Str("db"), rating |-> Num(2)])>>)]),
     Obj([items |-> Str("db")]),
     Arr(<<Obj([name |-> Str("db"), rating |-> Num(2)])>>),
     Obj([threatsAndVulnerabilities |->
              Arr(<<Obj([description |-> Str("db"),
                         mitigations |-> Arr(<<Obj([description |-> Str("db")])>>)])>>)])}

HeapInit ==
    /\ agent = NoAgent
    /\ \E doc \in HeapDocs :
          /\ heap = Cells(doc, 0, "loaded")
          /\ fullData = Allocated(doc, 0, "loaded")
    /\ last = NoCall
    /\ pc = "idle"
    /\ app = NoApp

\* The generation of the next call: a run holds at most two calls.
Generation == IF pc = "idle" THEN 1 ELSE 2

\* What a call leaves in last: the reference the caller held before the call
\* and the structural snapshot taken of it then.
HeapOutcome(op, path, r) ==
    [op |-> op, path |-> path, before |-> fullData,
     snapshot |-> Deref(heap, fullData), called |-> r.called, threw |-> r.threw,
     written |-> r.written, prior |-> IF pc = "idle" THEN {} ELSE {last}]

\* A Set leaves a document that shares no cell with the one before it; Add and
\* Remove leave one that shares the kept elements, and it is edited once more.
HeapSet(path, value) ==
    /\ pc \in {"idle", "shared"}
    /\ LET r == HeapHandleValueChange(heap, fullData, path, value, Generation)
       IN  /\ heap' = r.heap
           /\ fullData' = r.newData
           /\ last' = HeapOutcome("set", path, r)
    /\ pc' = "done"
    /\ UNCHANGED <<app, agent>>

HeapAdd(root, start) ==
    /\ pc \in {"idle", "shared"}
    /\ \E n \in ArrayNodes(Build(root, Deref(heap, fullData), start)) :
           LET r == HeapAddOnClick(heap, fullData, n, Generation)
           IN  /\ heap' = r.heap
               /\ fullData' = r.newData
               /\ last' = HeapOutcome("add", n.path, r)
    /\ pc' = IF pc = "idle" THEN "shared" ELSE "done"
    /\ UNCHANGED <<app, agent>>

HeapRemove(root, start) ==
    /\ pc \in {"idle", "shared"}
    /\ \E n \in ArrayNodes(Build(root, Deref(heap, fullData), start)) :
       \E i \in RenderedIndices(n.data) :
           LET r == HeapRemoveOnClick(heap, fullData, n, i - 1, Generation)
           IN  /\ heap' = r.heap
               /\ fullData' = r.newData
               /\ last' = HeapOutcome("remove", n.path, r)
    /\ pc' = IF pc = "idle" THEN "shared" ELSE "done"
    /\ UNCHANGED <<app, agent>>

HeapRoots == {"ItemsSchema", "ComplianceContentSchema"}

HeapNext ==
    \/ \E path \in Addresses, value \in EditValues : HeapSet(path, value)
    \/ \E root \in HeapRoots : \E start \in StartPaths(root) : HeapAdd(root, start)
    \/ \E root \in HeapRoots : \E start \in StartPaths(root) : HeapRemove(root, start)

HeapSpec == HeapInit /\ [][HeapNext]_vars

Prefix(path, n) == SubSeq(path, 1, n)
IsPrefix(p, q) == Len(p) <= Len(q) /\ Prefix(q, Len(p)) = p
\* Q is neither a prefix of P nor extended by P.
Unrelated(q, p) == ~IsPrefix(q, p) /\ ~IsPrefix(p, q)

\* The terminal shape the schema gives an address (NoSchema when the address
\* does not fit the schema).
RECURSIVE SchemaAt(_, _)
SchemaAt(schema, address) ==
    LET base == getBaseType(schema, 0) IN
    IF base = StackOverflow THEN NoSchema
    ELSE IF address = <<>> THEN base
    ELSE IF Schemas[base].typeName = "ZodObject" /\ ~IsIndex(Head(address))
            /\ Head(address).name \in DOMAIN Schemas[base].shape
         THEN SchemaAt(Schemas[base].shape[Head(address).name], Tail(address))
    ELSE IF Schemas[base].typeName = "ZodArray" /\ IsIndex(Head(address))
         THEN SchemaAt(Schemas[base].element, Tail(address))
    ELSE NoSchema

IsLeafSchema(s) == s # NoSchema /\ Schemas[s].typeName \in {"ZodString", "ZodNumber"}
\* V is of the primitive type of leaf s.
OfLeafType(s, v) ==
    \/ Schemas[s].typeName = "ZodString" /\ v.k = "string"
    \/ Schemas[s].typeName = "ZodNumber" /\ v.k = "number"

\* v fits the schema wherever it holds a value: any part may be missing (null or
\* undefined), what is present has the kind the schema gives it.
RECURSIVE PartialInstance(_, _)
PartialInstance(schema, v) ==
    LET base == getBaseType(schema, 0) IN
    \/ IsNullish(v)
    \/ /\ base # StackOverflow
       /\ CASE Schemas[base].typeName = "ZodObject" ->
                 /\ v.k = "object"
                 /\ \A key \in DOMAIN v.f :
                       /\ key \in DOMAIN Schemas[base].shape
                       /\ PartialInstance(Schemas[base].shape[key], v.f[key])
            [] Schemas[base].typeName = "ZodArray" ->
                 /\ v.k = "array"
                 /\ DOMAIN v.p = {}
                 /\ \A i \in 1..Len(v.e) :
                       PartialInstance(Schemas[base].element, v.e[i])
            [] Schemas[base].typeName = "ZodString" -> v.k = "string"
            [] Schemas[base].typeName = "ZodNumber" -> v.k = "number"
            [] OTHER -> FALSE

\* The schemas the round trip is stated for: object roots and a leaf root.
RoundTripSchemas == RootSchemas \cup {"StringLeaf"}

\* ------------------------------------------------------------------- claims
\* C2: round trip. For every schema, every document that fits it with parts
\* missing, every address P whose terminal shape is a leaf and every V of the
\* leaf's primitive type, set(doc, P, V) produces a document and reading P in
\* it yields V.
C2_RoundTrip ==
    last.op = "set" =>
        \A root \in RoundTripSchemas :
            ( /\ ~IsNullish(last.before)
              /\ PartialInstance(root, last.before)
              /\ IsLeafSchema(SchemaAt(root, last.path))
              /\ OfLeafType(SchemaAt(root, last.path), last.value) )
            => last.called /\ Get(fullData, last.path) = last.value

\* The round trip of C2 for the non-empty addresses alone.
RoundTripNonEmpty ==
    (last.op = "set" /\ last.path # <<>>) => C2_RoundTrip

\* C3: set changes only the value at P. After set(doc, P, V), every address Q
\* that is neither a prefix of P nor extended by P reads the same in the new
\* document as in doc, through the renderer's read and through a plain
\* property read. Such a Q leaves P at a sibling of one of P's segments, and
\* the value at Q is read from the value at that sibling: the formula states
\* that the whole value at every sibling of every segment of P is unchanged.
SiblingsOf(path) ==
    {Append(Prefix(path, i - 1), seg) :
        i \in 1..Len(path), seg \in Segments} \ {Prefix(path, i) : i \in 1..Len(path)}
C3_SetLeavesOtherAddresses ==
    last.op = "set" =>
        \A q \in SiblingsOf(last.path) :
            /\ Get(fullData, q) = Get(last.before, q)
            /\ RawGet(fullData, q) = RawGet(last.before, q)

\* The same, address by address, for the addresses of bounded length.
SetLeavesEveryUnrelatedAddress ==
    last.op = "set" =>
        \A q \in Addresses :
            Unrelated(q, last.path) =>
                /\ Get(fullData, q) = Get(last.before, q)
                /\ RawGet(fullData, q) = RawGet(last.before, q)

\* C3 happens: setting ["items", 0, "name"] changed the name and left the
\* rating of the same item as it was.
C3_Witness ==
    /\ last.op = "set" /\ last.called
    /\ last.path = <<Name("items"), Index(0), Name("name")>>
    /\ Get(last.before, last.path) = Str("db")
    /\ Get(fullData, last.path) = Str("PII store")
    /\ Get(fullData, <<Name("items"), Index(0), Name("rating")>>) = Num(2)

\* The Remove that follows an Add on the same array node and removes the last
\* index of the array the Add produced.
RemovedLastAfterAdd ==
    /\ last.op = "remove" /\ last.prior.op = "add"
    /\ last.prior.called /\ last.called
    /\ last.path = last.prior.path
    /\ last.index = Len(ArrayData(last.prior.data))

\* C4 as stated: removing the last index of the array at P from
\* insertArrayItem(doc, P) yields doc again, whatever doc holds at P.
C4_InsertRemoveInverse ==
    RemovedLastAfterAdd => fullData = last.prior.before

\* C4 as amended: the inverse holds when doc holds an array at P; when the
\* value at P is absent or not an array, the result holds the empty array at P.
C4_InsertRemoveInverseOnArrays ==
    RemovedLastAfterAdd =>
        /\ last.prior.data.k = "array" => fullData = last.prior.before
        /\ last.prior.data.k # "array" =>
               /\ RawGet(fullData, last.path) = EmptyArr
               /\ RawGet(last.prior.before, last.path) # EmptyArr

\* C4 happens: an item was added to an array that held one and removed again.
C4_Witness ==
    /\ RemovedLastAfterAdd
    /\ last.prior.data.k = "array" /\ Len(last.prior.data.e) = 1
    /\ last.index = 1

\* C5: synthesize terminates for every schema of the graph, the self- and
\* mutually-referential ones included: generateDefaultValue returns a value and
\* does not exhaust the call stack.
C5_SynthesisTerminates ==
    last.op = "synthesize" => last.result # RangeError

\* The schemas reachable from s, s included.
RECURSIVE Reachable(_, _)
Reachable(frontier, seen) ==
    IF frontier \subseteq seen THEN seen
    ELSE LET s == CHOOSE x \in frontier \ seen : TRUE
             def == Schemas[s]
             next == CASE def.typeName = "ZodObject" ->
                            {def.shape[key] : key \in DOMAIN def.shape}
                       [] def.typeName = "ZodArray" -> {def.element}
                       [] def.typeName \in {"ZodDefault", "ZodOptional"} ->
                            {def.innerType}
                       [] def.typeName = "ZodLazy" -> {def.getter}
                       [] OTHER -> {}
         IN  Reachable((frontier \cup next) \ {s}, seen \cup {s})

\* s is built from Object, Array, StringLeaf, NumberLeaf, Wrapped and Deferred
\* nodes only.
ClosedSchema(s) ==
    \A x \in Reachable({s}, {}) :
        Schemas[x].typeName \in {"ZodObject", "ZodArray", "ZodString", "ZodNumber",
                                 "ZodDefault", "ZodLazy"}

\* Zod's parse of value v against schema s accepts v.
RECURSIVE Validates(_, _)
Validates(s, v) ==
    LET def == Schemas[s] IN
    CASE def.typeName = "ZodString" -> v.k = "string"
      [] def.typeName = "ZodNumber" ->
           /\ v.k = "number"
           /\ \A c \in def.checks :
                 IF c.kind = "min" THEN v.n >= c.value ELSE v.n <= c.value
      [] def.typeName = "ZodBoolean" -> v.k = "boolean"
      [] def.typeName = "ZodArray" ->
           /\ v.k = "array"
           /\ \A i \in 1..Len(v.e) : Validates(def.element, v.e[i])
      [] def.typeName = "ZodObject" ->
           /\ v.k = "object"
           /\ \A key \in DOMAIN def.shape :
                 Validates(def.shape[key],
                           IF key \in DOMAIN v.f THEN v.f[key] ELSE Undef)
      [] def.typeName = "ZodDefault" ->
           v.k = "undefined" \/ Validates(def.innerType, v)
      [] def.typeName = "ZodOptional" ->
           v.k = "undefined" \/ Validates(def.innerType, v)
      [] def.typeName = "ZodLazy" -> Validates(def.getter, v)
      [] OTHER -> FALSE

\* C6: for every schema built from the six kinds, synthesize returns a value
\* and that value validates against the schema.
C6_SynthesizedValueValidates ==
    (last.op = "synthesize" /\ ClosedSchema(last.schema)) =>
        /\ last.result # RangeError
        /\ Validates(last.schema, last.result)

\* C7: no engine operation throws, whatever the document.
C7_NoOperationThrows ==
    last.op # "none" => ~last.threw

\* The addresses of the fields of an object schema, through nested objects, to
\* depth n.
RECURSIVE FieldPaths(_, _, _)
FieldPaths(schema, prefix, n) ==
    LET base == getBaseType(schema, 0) IN
    IF n = 0 \/ base = StackOverflow \/ Schemas[base].typeName # "ZodObject" THEN {}
    ELSE UNION {{Append(prefix, Name(key))} \cup
                FieldPaths(Schemas[base].shape[key], Append(prefix, Name(key)), n - 1) :
                key \in DOMAIN Schemas[base].shape}

\* The kind of node a terminal shape is rendered as.
NodeKind(s) ==
    CASE s = NoSchema -> "none"
      [] Schemas[s].typeName = "ZodObject" -> "object"
      [] Schemas[s].typeName = "ZodArray" -> "array"
      [] Schemas[s].typeName = "ZodString" -> "string"
      [] Schemas[s].typeName = "ZodNumber" -> "number"
      [] OTHER -> "unsupported"

\* C8: build(schema, {}) of an object schema, from the default empty address,
\* does not throw, holds a node of the right kind for every field of the schema
\* and every leaf node carries ABSENT.
C8_BuildOfEmptyDocument ==
    ( /\ last.op = "build" /\ last.start = <<>>
      /\ fullData = EmptyObj
      /\ last.root \in {"ItemsSchema", "ComplianceContentSchema"} )
    => /\ ~last.threw
       /\ \A path \in FieldPaths(last.root, <<>>, MaxPathLen) :
             \E n \in last.nodes :
                 n.path = path /\ n.kind = NodeKind(SchemaAt(last.root, path))
       /\ \A n \in last.nodes :
             n.kind \in {"string", "number"} => n.data = Undef

\* While walking P, set meets a string or a number where it needs a container.
MeetsPrimitive(document, path) ==
    \E i \in 0..(Len(path) - 1) :
        RawGet(document, Prefix(path, i)).k \in {"string", "number"}

\* While walking P, set meets an intermediate value (not null, not absent)
\* whose kind disagrees with the next segment.
KindFits(v, seg) == IF IsIndex(seg) THEN v.k = "array" ELSE v.k = "object"
MeetsMismatch(document, path) ==
    \E i \in 1..(Len(path) - 1) :
        LET v == RawGet(document, Prefix(path, i))
        IN  ~IsNullish(v) /\ ~KindFits(v, path[i + 1])

C9_WitnessKept ==
    /\ last.op = "set" /\ last.called
    /\ last.path = <<Name("items"), Name("name")>>
    /\ RawGet(last.before, <<Name("items")>>).k = "array"
    /\ RawGet(fullData, <<Name("items")>>).k = "array"
    /\ RawGet(fullData, last.path) = last.value

\* C10: set with the empty address replaces the whole document by V.
C10_EmptyAddressReplacesDocument ==
    (last.op = "set" /\ last.path = <<>>) => fullData = last.value

\* C1: set, insertArrayItem and removeArrayItem never mutate the document they
\* are given. After every call the reference held before it stands for the same
\* tree as the snapshot taken before the call, no cell reachable from it was
\* written, and the same holds of the document of the call before.
Untouched(call) ==
    /\ Deref(heap, call.before) = call.snapshot
    /\ call.written \cap ReachableCells(heap, call.before) = {}
C1_DocumentNeverMutated ==
    last.op # "none" =>
        /\ Untouched(last)
        /\ \A call \in last.prior :
              /\ Deref(heap, call.before) = call.snapshot
              /\ last.written \cap ReachableCells(heap, call.before) = {}

\* C1 happens: an item was added, so that the new document shares the kept
\* item with the old one, and the new document was then edited inside that
\* shared item; both calls produced a document.
C1_Witness ==
    /\ last.op = "set" /\ last.called
    /\ last.path = <<Name("items"), Index(0), Name("name")>>
    /\ \E call \in last.prior :
          /\ call.op = "add" /\ call.called
          /\ ReachableCells(heap, call.before)
                 \cap ReachableCells(heap, last.before) # {}
    /\ Deref(heap, fullData) # last.snapshot

\* ----------------------------------------------------------------- C11..C20
\* The sequence e without its element at the 0-based index i.
Without(e, i) ==
    [j \in 1..(Len(e) - 1) |-> IF j <= i THEN e[j] ELSE e[j + 1]]

\* The indices tried that are not indices of an array of n elements.
OtherIndices(n) == (-1..(MaxIndex + 2)) \ (0..(n - 1))

\* C11: removeArrayItem(doc, P, i) yields a document whose array at P is the
\* array of doc at P without exactly the element at index i, the others kept
\* in their order; with an i that is not an index of that array the call
\* succeeds and yields a document deep-equal to doc.
C11_RemoveExcludesOneElement ==
    (last.op = "remove" /\ last.data.k = "array") =>
        /\ ~last.threw /\ last.called
        /\ RawGet(last.before, last.path) = last.data
        /\ RawGet(fullData, last.path) = Arr(Without(last.data.e, last.index))
        /\ \A i \in OtherIndices(Len(last.data.e)) :
              LET r == RemoveOnClick(last.before,
                                     [path |-> last.path, data |-> last.data], i)
              IN  ~r.threw /\ r.called /\ r.newData = last.before

\* C11 happens: the first of two elements was removed and the second is kept.
C11_Witness ==
    /\ last.op = "remove" /\ last.index = 0
    /\ last.data.k = "array" /\ Len(last.data.e) = 2
    /\ RawGet(fullData, last.path) = Arr(<<last.data.e[2]>>)
    /\ last.data.e[1] # last.data.e[2]

\* The element shape of the array schema rendered at the path of the last call.
ElementShape(call) ==
    LET nodes == {n \in ArrayNodes(Build(call.root, call.before, call.start)) :
                     n.path = call.path}
    IN  Schemas[(CHOOSE n \in nodes : TRUE).schema].element

\* C12: insertArrayItem(doc, P) yields a document whose array at P is the
\* array of doc at P (the empty array when the object doc holds none) with exactly one
\* element appended at the end, synthesize(element shape of the array schema
\* at P); the elements already there keep their values and positions. For
\* items: Array of Object{name, rating(min 1, max 4)} and doc {items: []} the
\* result is {items: [{name: "", rating: 1}]}.
C12_InsertAppendsSynthesized ==
    (last.op = "add" /\ IsContainer(last.before)) =>
        LET was == IF last.data.k = "array" THEN last.data.e ELSE <<>>
            now == RawGet(fullData, last.path)
        IN  /\ ~last.threw /\ last.called
            /\ now.k = "array" /\ Len(now.e) = Len(was) + 1
            /\ \A i \in 1..Len(was) : now.e[i] = was[i]
            /\ now.e[Len(was) + 1] = generateDefaultValue(ElementShape(last), 0)
            /\ ( /\ last.before = Obj([items |-> EmptyArr])
                 /\ last.root = "ItemsSchema" )
               => fullData = Obj([items |->
                                    Arr(<<Obj([name |-> Str(""), rating |-> Num(1)])>>)])

\* C12 happens: an item was appended to an array that held two.
C12_Witness ==
    /\ last.op = "add" /\ last.called
    /\ last.root = "ItemsSchema"
    /\ last.data.k = "array" /\ Len(last.data.e) = 2
    /\ RawGet(fullData, last.path).e[3] = Obj([name |-> Str(""), rating |-> Num(1)])

\* The number schemas: those whose terminal shape is a NumberLeaf.
IsNumberLeaf(s) ==
    LET base == getBaseType(s, 0)
    IN  base # StackOverflow /\ Schemas[base].typeName = "ZodNumber"
\* The min a number schema declares, as a set (empty when none is declared).
DeclaredMin(s) == {c.value : c \in MinChecks(getBaseType(s, 0))}

\* C13 as stated: synthesize of a NumberLeaf returns its declared min when a
\* min is declared, and 0 when no min is declared.
C13_NumberDefaultMinElseZero ==
    (last.op = "synthesize" /\ IsNumberLeaf(last.schema)) =>
        IF DeclaredMin(last.schema) # {}
        THEN \E m \in DeclaredMin(last.schema) : last.result = Num(m)
        ELSE last.result = Num(0)

\* C13 as amended: synthesize of a NumberLeaf returns its declared min when a
\* min is declared, and 1 when no min is declared, whatever max is declared.
C13_NumberDefaultMinElseOne ==
    (last.op = "synthesize" /\ IsNumberLeaf(last.schema)) =>
        IF DeclaredMin(last.schema) # {}
        THEN \E m \in DeclaredMin(last.schema) : last.result = Num(m)
        ELSE last.result = Num(1)

\* C13 happens: a number without a min was synthesized.
C13_Witness ==
    /\ last.op = "synthesize" /\ last.schema = "PlainNumber"
    /\ DeclaredMin(last.schema) = {}
    /\ last.result = Num(1)
\* A number with the min 2 was synthesized as 2.
C13_WitnessMin ==
    /\ last.op = "synthesize" /\ last.schema = "AtLeastTwo"
    /\ last.result = Num(2)

\* A terminal shape outside the closed set {Object, Array, StringLeaf,
\* NumberLeaf}: the schema is no wrapper and none of the four.
UnsupportedShape(s) ==
    Schemas[s].typeName \notin {"ZodObject", "ZodArray", "ZodString", "ZodNumber",
                                "ZodDefault", "ZodOptional", "ZodLazy"}
\* The schemas that hold a field of an unsupported shape.
HoldsUnsupported(s) == \E x \in Reachable({s}, {}) : UnsupportedShape(x)

\* What build owes a schema with an unsupported field: it does not throw, and
\* every field below the start, the unsupported one and its siblings, has a
\* node of its kind.
PlaceholderAndSiblings(call) ==
    /\ ~call.threw
    /\ \A path \in FieldPaths(call.root, <<>>, MaxPathLen) :
          IsPrefix(call.start, path) =>
              \E n \in call.nodes :
                  n.path = path /\ n.kind = NodeKind(SchemaAt(call.root, path))

\* What synthesize owes it: it does not throw, an unsupported shape yields
\* undefined, and an object holds undefined at each unsupported field and the
\* synthesized value at every other field.
RECURSIVE AbsentWhereUnsupported(_, _)
AbsentWhereUnsupported(s, v) ==
    LET base == getBaseType(s, 0) IN
    IF UnsupportedShape(base) THEN v = Undef
    ELSE IF Schemas[base].typeName = "ZodObject"
         THEN /\ v.k = "object"
              /\ DOMAIN v.f = DOMAIN Schemas[base].shape
              /\ \A key \in DOMAIN v.f :
                    AbsentWhereUnsupported(Schemas[base].shape[key], v.f[key])
         ELSE v \notin {Undef, RangeError}

\* C14: a terminal shape outside the closed set is handled locally. build
\* returns an "unsupported field" placeholder node for that field and still
\* builds all sibling fields; synthesize returns undefined for that field;
\* neither throws.
C14_UnsupportedShapeLocal ==
    /\ (last.op = "build" /\ HoldsUnsupported(last.root)) =>
           PlaceholderAndSiblings(last)
    /\ (last.op = "synthesize" /\ HoldsUnsupported(last.schema)) =>
           ~last.threw /\ AbsentWhereUnsupported(last.schema, last.result)

\* The same for the renders that start at the path of a field of the root, as
\* App starts them.
UnsupportedShapeLocalFromField ==
    /\ (last.op = "build" /\ HoldsUnsupported(last.root) /\ last.start # <<>>) =>
           /\ PlaceholderAndSiblings(last)
           /\ \E n \in last.nodes : n.kind = "unsupported"
    /\ (last.op = "synthesize" /\ HoldsUnsupported(last.schema)) =>
           ~last.threw /\ AbsentWhereUnsupported(last.schema, last.result)

\* The wrapper layers: defaulted, optional, deferred.
IsWrapper(s) == Schemas[s].typeName \in {"ZodDefault", "ZodOptional", "ZodLazy"}
\* The shape under all the wrapper layers of s, whatever their order; NoSchema
\* when n layers do not reach one.
RECURSIVE TerminalShape(_, _)
TerminalShape(s, n) ==
    IF ~IsWrapper(s) THEN s
    ELSE IF n = 0 THEN NoSchema
    ELSE TerminalShape(IF Schemas[s].typeName = "ZodLazy"
                       THEN Schemas[s].getter ELSE Schemas[s].innerType, n - 1)

\* C15: resolve strips every wrapper layer, defaulted, optional and deferred,
\* in any nesting order, and returns the terminal shape underneath; a wrapped
\* array, object or leaf is synthesized and built exactly like the unwrapped
\* shape.
C15_ResolveStripsEveryWrapper ==
    /\ (last.op = "synthesize" /\ TerminalShape(last.schema, MaxStack) # NoSchema) =>
           LET terminal == TerminalShape(last.schema, MaxStack)
           IN  /\ getBaseType(last.schema, 0) = terminal
               /\ last.result = generateDefaultValue(terminal, 0)
    /\ last.op = "build" =>
           \A n \in last.nodes :
               (n.kind = "unsupported" /\ TerminalShape(n.schema, MaxStack) # NoSchema)
                   => UnsupportedShape(TerminalShape(n.schema, MaxStack))

\* The same without the optional layer: defaulted and deferred layers are
\* stripped in any order.
ResolveStripsDefaultAndLazy ==
    ( /\ last.op = "synthesize"
      /\ TerminalShape(last.schema, MaxStack) # NoSchema
      /\ \A x \in Reachable({last.schema}, {}) : Schemas[x].typeName # "ZodOptional" )
    => LET terminal == TerminalShape(last.schema, MaxStack)
       IN  /\ getBaseType(last.schema, 0) = terminal
           /\ last.result = generateDefaultValue(terminal, 0)

\* The Deferred chain of s never reaches a terminal shape.
EndlessChain(s) == TerminalShape(s, Cardinality(SchemaIds)) = NoSchema

\* C16: a Deferred chain that never reaches a terminal shape is detected when
\* the schema is resolved: the operation ends with a SchemaCycleError, it does
\* not recurse until the call stack is exhausted.
C16_DeferredCycleDetected ==
    (last.op = "synthesize" /\ EndlessChain(last.schema)) =>
        /\ last.result # RangeError
        /\ last.result.k = "SchemaCycleError"

\* ---------------------------------------------------------------------- App
\* The number of form edits of one run of App.
MaxEdits == 2

\* initialComplianceData
initialComplianceData ==
    Obj([general |-> Obj([description |-> Str("")]),
         lawsAndRegulations |-> EmptyArr,
         dataPoints |-> EmptyArr,
         threatsAndVulnerabilities |-> EmptyArr])

\* TABS: the keys of the sections of the schema.
TABS == {"general", "lawsAndRegulations", "dataPoints", "threatsAndVulnerabilities"}

\* What safeParse yields for a value the schema rejects.
ZodError == [k |-> "ZodError"]

\* safeParse that hands back the value it was given when the schema accepts it.
safeParseKeepsKeys(s, v) == IF Validates(s, v) THEN v ELSE ZodError

\* schema.safeParse(v): ZodError, or the parsed data. An object schema keeps
\* the keys of its shape and strips the keys it does not declare.
RECURSIVE safeParse(_, _)
safeParse(s, v) ==
    LET def == Schemas[s] IN
    CASE def.typeName = "ZodString" -> IF v.k = "string" THEN v ELSE ZodError
      [] def.typeName = "ZodNumber" ->
           IF /\ v.k = "number"
              /\ \A c \in def.checks :
                    IF c.kind = "min" THEN v.n >= c.value ELSE v.n <= c.value
           THEN v ELSE ZodError
      [] def.typeName = "ZodArray" ->
           IF v.k # "array" THEN ZodError
           ELSE LET parsed == [i \in 1..Len(v.e) |-> safeParse(def.element, v.e[i])]
                IN  IF \E i \in 1..Len(v.e) : parsed[i] = ZodError
                    THEN ZodError ELSE Arr(parsed)
      [] def.typeName = "ZodObject" ->
           IF v.k # "object" THEN ZodError
           ELSE LET parsed == [key \in DOMAIN def.shape |->
                                  safeParse(def.shape[key],
                                            IF key \in DOMAIN v.f
                                            THEN v.f[key] ELSE Undef)]
                    kept == {key \in DOMAIN def.shape :
                                key \in DOMAIN v.f \/ parsed[key] # Undef}
                IN  IF \E key \in DOMAIN def.shape : parsed[key] = ZodError
                    THEN ZodError ELSE Obj([key \in kept |-> parsed[key]])
      [] def.typeName = "ZodDefault" ->
           IF v = Undef THEN def.defaultValue ELSE safeParse(def.innerType, v)
      [] def.typeName = "ZodOptional" ->
           IF v = Undef THEN Undef ELSE safeParse(def.innerType, v)
      [] def.typeName = "ZodLazy" -> safeParse(def.getter, v)
      [] OTHER -> IF v.k = "boolean" THEN v ELSE ZodError

\* {...a, ...b}
SpreadMerge(a, b) == Obj(b.f @@ a.f)

\* A local storage item: null when the key is not set, else its text, held as
\* the text being empty or not and what JSON.parse makes of it (SyntaxError
\* when it is no JSON).
NoItem == Null
Item(parsed) == [k |-> "item", empty |-> FALSE, parsed |-> parsed]
EmptyItem == [k |-> "item", empty |-> TRUE, parsed |-> SyntaxError]
\* if (storedComplianceData)
Truthy(item) == item # NoItem /\ ~item.empty

\* The error messages of the load effect.
ErrParse == "Failed to load saved data. Resetting to default."
ErrMismatch == "Failed to load saved data due to structure mismatch. Resetting to default."
ErrChatParse == "Failed to load chat history. Clearing history."
ErrChatMismatch == "Failed to load chat history. It might be corrupted. Clearing history."
NoError == "null"

\* The stored documents App is started with.
OneDataPoint(c) ==
    Obj([name |-> Str("db"),
         cia |-> Obj([confidentiality |-> Num(c), integrity |-> Num(3),
                      availability |-> Num(4)])])
OneThreat ==
    Obj([description |-> Str("leak"),
         mitigations |-> Arr(<<Obj([description |-> Str("encrypt")])>>)])
WithDataPoints(e) ==
    Obj([general |-> Obj([description |-> Str("shop")]),
         lawsAndRegulations |-> Arr(<<Str("GDPR")>>),
         dataPoints |-> Arr(e),
         threatsAndVulnerabilities |-> Arr(<<OneThreat>>)])
StoredDocuments ==
    {initialComplianceData,
     WithDataPoints(<<OneDataPoint(2)>>),
     WithDataPoints(<<>>),
     Obj([mitigations |-> EmptyArr] @@ initialComplianceData.f),
     Obj([general |-> Obj([description |-> Str("shop"), owner |-> Str("me")]),
          lawsAndRegulations |-> EmptyArr, dataPoints |-> EmptyArr,
          threatsAndVulnerabilities |-> EmptyArr]),
     WithDataPoints(<<OneDataPoint(7)>>),
     Obj([lawsAndRegulations |-> EmptyArr, dataPoints |-> EmptyArr,
          threatsAndVulnerabilities |-> EmptyArr]),
     EmptyObj, Null, Str("db"), EmptyArr}
StoredItems ==
    {NoItem, EmptyItem, Item(SyntaxError)} \cup {Item(d) : d \in StoredDocuments}

\* A chat message, as App holds it and as it is stored. The timestamp (a Date
\* in App, its ISO text in the stored form) is left out.
Message(role, text) == Obj([role |-> Str(role), text |-> Str(text)])
\* z.array(ChatMessageSchema).safeParse(parsed).success
MessagesValid(parsed) ==
    /\ parsed.k = "array"
    /\ \A i \in 1..Len(parsed.e) :
          /\ parsed.e[i].k = "object"
          /\ {"role", "text"} \subseteq DOMAIN parsed.e[i].f
          /\ parsed.e[i].f.role \in {Str("user"), Str("agent")}
          /\ parsed.e[i].f.text.k = "string"
\* The stored chat messages: no item, a text that is no JSON, a list that
\* fails the message schema, a list that passes.
StoredMessages ==
    {NoItem, Item(SyntaxError), Item(Arr(<<Obj([role |-> Str("system")])>>)),
     Item(Arr(<<Message("user", "hi")>>))}
StoredUrls == {NoItem, Item(Str("https://github.com/org/repo"))}

\* App before its mount effects ran. strict: the development build, in which
\* StrictMode runs the effects of the mount twice. requests, latest, input and
\* rendered belong to the chat: the agent requests in flight, the number of the
\* last one sent, the text in the chat input, what the handlers of the current
\* render captured, and whether state was set that is not rendered yet.
AppInit ==
    /\ agent = NoAgent
    /\ fullData = initialComplianceData
    /\ last = NoCall
    /\ pc = "Raw"
    /\ heap = <<>>
    /\ \E url \in StoredUrls, data \in StoredItems, messages \in StoredMessages,
          strict \in BOOLEAN :
          app = [mounted |-> TRUE, strict |-> strict,
                 storage |-> [url |-> url, data |-> data, messages |-> messages],
                 repositoryUrl |-> "", messages |-> <<>>,
                 error |-> NoError, isInitialLoad |-> TRUE, edits |-> 0,
                 requests |-> <<>>, latest |-> 0, input |-> "", stale |-> FALSE,
                 rendered |-> [isPending |-> FALSE, messages |-> <<>>]]

\* A state setter that was not called.
NotSet == [k |-> "notSet"]
\* The later of two calls of a state setter.
LaterOf(first, second) == IF second # NotSet THEN second ELSE first
\* The state after the queued calls of its setter.
Applied(current, queued) == IF queued # NotSet THEN queued ELSE current

\* The load effect, run on storage: the storage it leaves and the setter calls
\* it queues.
LoadEffect(storage) ==
    LET parsedData == storage.data.parsed
        result == IF Truthy(storage.data) /\ parsedData # SyntaxError
                  THEN safeParse("ComplianceContentSchema", parsedData)
                  ELSE ZodError
        outcome == IF ~Truthy(storage.data) THEN "NoItem"
                   ELSE IF parsedData = SyntaxError THEN "Unparsed"
                   ELSE IF result = ZodError THEN "Invalid" ELSE "Valid"
        chat == IF ~Truthy(storage.messages) THEN "NoItem"
                ELSE IF storage.messages.parsed = SyntaxError THEN "Unparsed"
                ELSE IF ~MessagesValid(storage.messages.parsed) THEN "Invalid"
                ELSE "Valid"
        errorAfterData == CASE outcome = "Unparsed" -> Str(ErrParse)
                            [] outcome = "Invalid" -> Str(ErrMismatch)
                            [] OTHER -> NotSet
    IN  [outcome |-> outcome,
         storage |-> [url |-> storage.url,
                      data |-> IF outcome \in {"Unparsed", "Invalid"}
                               THEN NoItem ELSE storage.data,
                      messages |-> IF chat \in {"Unparsed", "Invalid"}
                                   THEN NoItem ELSE storage.messages],
         repositoryUrl |-> IF Truthy(storage.url) THEN storage.url.parsed ELSE NotSet,
         complianceData |-> CASE outcome = "Valid" ->
                                     SpreadMerge(initialComplianceData, result)
                              [] outcome = "NoItem" -> NotSet
                              [] OTHER -> initialComplianceData,
         messages |-> CASE chat = "Valid" -> storage.messages.parsed
                        [] chat = "NoItem" -> NotSet
                        [] OTHER -> EmptyArr,
         error |-> CASE chat = "Unparsed" -> Str(ErrChatParse)
                     [] chat = "Invalid" -> Str(ErrChatMismatch)
                     [] OTHER -> errorAfterData]

\* The effect that saves the repository URL.
SaveUrlEffect(repositoryUrl, storage) ==
    [storage EXCEPT !.url = IF repositoryUrl # "" THEN Item(Str(repositoryUrl))
                            ELSE NoItem]

\* The effect that saves the document, without the isInitialLoad guard.
SaveDataEffectUnguarded(isInitialLoad, complianceData, storage) ==
    [wrote |-> TRUE,
     storage |-> [storage EXCEPT !.data = Item(JsonCopy(complianceData))]]

\* The effect that saves the document: the storage it leaves, and whether it
\* called setItem. The text written is JSON.stringify(complianceData), held as
\* what JSON.parse makes of it.
SaveDataEffect(isInitialLoad, complianceData, storage) ==
    IF isInitialLoad THEN [wrote |-> FALSE, storage |-> storage]
    ELSE [wrote |-> TRUE,
          storage |-> [storage EXCEPT !.data = Item(JsonCopy(complianceData))]]

\* The effect that saves the chat messages.
SaveMessagesEffect(isInitialLoad, messages, storage) ==
    IF isInitialLoad THEN storage
    ELSE [storage EXCEPT !.messages = Item(Arr(messages))]

\* The effects of the first commit, run in their order with the state of the
\* first render: "", initialComplianceData, [] and isInitialLoad = true.
MountEffects(storage) ==
    LET load == LoadEffect(storage)
        afterUrl == SaveUrlEffect("", load.storage)
        save == SaveDataEffect(TRUE, initialComplianceData, afterUrl)
    IN  [load |-> load, wrote |-> save.wrote,
         storage |-> SaveMessagesEffect(TRUE, <<>>, save.storage)]

\* What the handlers of a render capture of the state they are rendered with.
\* isPending is that of the mutation observer, which follows the mutation
\* started last.
Rendered(a) ==
    [isPending |-> \E i \in 1..Len(a.requests) : a.requests[i].id = a.latest,
     messages |-> a.messages]

\* The state of App after the setter calls queued by the runs of the mount
\* effects, first and second (the same run twice where there was one), on the
\* storage the last run left.
Mounted(a, first, second) ==
    [a EXCEPT
       !.repositoryUrl =
           Applied(Str(a.repositoryUrl),
                   LaterOf(first.load.repositoryUrl, second.load.repositoryUrl)).s,
       !.messages =
           Applied(Arr(a.messages), LaterOf(first.load.messages, second.load.messages)).e,
       !.error = Applied(Str(a.error), LaterOf(first.load.error, second.load.error)).s,
       !.isInitialLoad = FALSE,
       !.storage = second.storage]

\* The save effects of the commit that follows the mount, from state a with
\* document complianceData; before is the state of the first render.
Committed(before, a, complianceData) ==
    [a EXCEPT
       !.storage =
           SaveMessagesEffect(FALSE, a.messages,
               SaveDataEffect(FALSE, complianceData,
                   IF a.repositoryUrl # before.repositoryUrl
                   THEN SaveUrlEffect(a.repositoryUrl, a.storage)
                   ELSE a.storage).storage)]

\* State a with the handlers of its render.
WithRendered(a) == [a EXCEPT !.rendered = Rendered(a)]

\* The mount of App after the runs first and second of its effects.
LoadRuns(first, second) ==
    /\ fullData' = Applied(fullData, LaterOf(first.load.complianceData,
                                             second.load.complianceData))
    /\ app' = WithRendered(Committed(app, Mounted(app, first, second), fullData'))
    /\ last' = [op |-> "load", stored |-> app.storage.data,
                outcome |-> first.load.outcome,
                wroteWhileInitial |-> first.wrote \/ second.wrote,
                wrote |-> SaveDataEffect(FALSE, fullData', app.storage).wrote]

\* The mount of App after the first run of its effects: under StrictMode they
\* run once more, on the storage the first run left.
LoadFirst(first) ==
    LoadRuns(first, IF app.strict THEN MountEffects(first.storage) ELSE first)

\* The mount of App: the effects of the first commit (twice under StrictMode),
\* then the render with the state they set and the save effects of that
\* commit.
Load ==
    /\ pc = "Raw"
    /\ LoadFirst(MountEffects(app.storage))
    /\ pc' = "Editable"
    /\ UNCHANGED <<heap, agent>>

\* What the textarea and the number input hand to onChange as e.target.value;
\* a number input holds the empty text or the text of a number.
TypedTexts == {"PII store", ""}
TypedNumbers == {"", "3", "7", "0", "2.5"}

NaN == [k |-> "NaN"]
\* parseInt(text, 10): the leading integer of the text, NaN when it has none.
parseInt(text) ==
    CASE text = "3" -> Num(3)
      [] text = "7" -> Num(7)
      [] text = "0" -> Num(0)
      [] text = "2.5" -> Num(2)
      [] OTHER -> NaN

\* An onChange that issues no edit for a text without a number.
NumberOnChangeKeepsOnInvalid(document, n, text) ==
    IF parseInt(text) # NaN
    THEN handleValueChange(document, n.path, parseInt(text))
    ELSE [threw |-> FALSE, called |-> FALSE, newData |-> document]

\* The onChange of the number input of number node n.
NumberOnChange(document, n, text) ==
    LET minValue == IF MinChecks(n.schema) # {}
                    THEN Num((CHOOSE c \in MinChecks(n.schema) : TRUE).value)
                    ELSE Undef
        numValue == IF text = ""
                    THEN IF minValue # Undef THEN minValue ELSE Null
                    ELSE parseInt(text)
    IN  IF numValue # Null /\ numValue # NaN
        THEN handleValueChange(document, n.path, numValue)
        ELSE IF minValue # Undef
             THEN handleValueChange(document, n.path, minValue)
             ELSE [threw |-> FALSE, called |-> FALSE, newData |-> document]

\* The onChange of the textarea of string node n.
StringOnChange(document, n, text) == handleValueChange(document, n.path, Str(text))

\* The nodes App renders for a tab.
TabNodes(tab) == Build("ComplianceContentSchema", fullData, <<Name(tab)>>)

\* No form edit was applied since a request was sent.
NoEdit == [k |-> "none"]

\* A form handler after which the load effect runs again (an effect that
\* depends on complianceData): the document is read back from storage.
FormEditReloads(op, n, r) ==
    LET save == IF r.called
                THEN SaveDataEffect(app.isInitialLoad, r.newData, app.storage)
                ELSE [wrote |-> FALSE, storage |-> app.storage]
        load == LoadEffect(save.storage)
    IN  /\ ~app.stale
        /\ fullData' = Applied(r.newData, load.complianceData)
        /\ last' = [op |-> op, before |-> fullData, path |-> n.path,
                    called |-> r.called, threw |-> r.threw, error |-> app.error]
        /\ app' = [app EXCEPT !.edits = @ + 1, !.storage = load.storage,
                              !.error = IF load.error # NotSet THEN load.error.s ELSE @]
        /\ pc' = IF load.outcome \in {"Unparsed", "Invalid"}
                 THEN "Defaulted" ELSE "Editable"
        /\ UNCHANGED <<heap, agent>>

\* A form handler ran: onDataChange is setComplianceData, and the render that
\* follows a call of it runs the effect that saves the document.
FormEdit(op, n, r) ==
    /\ ~app.stale
    /\ fullData' = r.newData
    /\ last' = [op |-> op, before |-> fullData, path |-> n.path,
                called |-> r.called, threw |-> r.threw, error |-> app.error]
    /\ LET save == IF r.called
                   THEN SaveDataEffect(app.isInitialLoad, r.newData, app.storage)
                   ELSE [wrote |-> FALSE, storage |-> app.storage]
           edited == IF r.called
                     THEN [k |-> "edit", path |-> n.path,
                           value |-> RawGet(r.newData, n.path)]
                     ELSE NoEdit
       IN  app' = [app EXCEPT
                     !.edits = @ + 1,
                     !.storage = save.storage,
                     !.requests = [i \in 1..Len(@) |->
                                      IF r.called THEN [@[i] EXCEPT !.edited = edited]
                                      ELSE @[i]]]
    /\ pc' = "Editable"
    /\ UNCHANGED <<heap, agent>>

\* The user types into the textarea of a string field of the tab.
TypeString(tab) ==
    /\ pc = "Editable" /\ app.edits < MaxEdits
    /\ \E n \in {x \in TabNodes(tab) : x.kind = "string"}, text \in TypedTexts :
          FormEdit("string", n, StringOnChange(fullData, n, text))

\* The user changes the number input of a number field of the tab.
TypeNumber(tab) ==
    /\ pc = "Editable" /\ app.edits < MaxEdits
    /\ \E n \in {x \in TabNodes(tab) : x.kind = "number"}, text \in TypedNumbers :
          FormEdit("number", n, NumberOnChange(fullData, n, text))

\* The user clicks the Add button of an array of the tab.
ClickAdd(tab) ==
    /\ pc = "Editable" /\ app.edits < MaxEdits
    /\ \E n \in ArrayNodes(TabNodes(tab)) :
          FormEdit("add", n, AddOnClick(fullData, n))

\* The user clicks a Remove button of an array of the tab.
ClickRemove(tab) ==
    /\ pc = "Editable" /\ app.edits < MaxEdits
    /\ \E n \in ArrayNodes(TabNodes(tab)) : \E i \in RenderedIndices(n.data) :
          FormEdit("remove", n, RemoveOnClick(fullData, n, i - 1))

AppNext ==
    \/ Load
    \/ \E tab \in TABS : TypeString(tab)
    \/ \E tab \in TABS : TypeNumber(tab)
    \/ \E tab \in TABS : ClickAdd(tab)
    \/ \E tab \in TABS : ClickRemove(tab)

AppSpec == AppInit /\ [][AppNext]_vars

\* ----------------------------------------------------------------- the chat
MaxSends == 2

\* The texts of the chat input.
ChatTexts == {"   ", "update the report"}
\* messageText.trim()
Trim(text) == IF text \in {"", "   "} THEN "" ELSE text

\* z.string().url().safeParse(url).success
UrlValid(url) ==
    url \in {"https://github.com/org/repo",
             "https://github.com/capy-ai-enablement/compliance-agent"}
defaultRepoUrl == "https://github.com/capy-ai-enablement/compliance-agent"

ErrUrl == "Please enter a valid repository URL or leave it blank to use the default."
ErrAgentData == "Received invalid data structure from the agent. Please check backend logs."
ErrAgentCall == "Error: Failed to get response from LLM agent"

\* What the agent makes of the document of a request: the same document with
\* the description rewritten.
AgentUpdate(complianceData) ==
    Obj([general |-> Obj([description |-> Str("analysed")])] @@ complianceData.f)

\* What mutateAsync settles with for a request: a rejection, or a response
\* with the agent's message and, as updatedComplianceData, nothing, the
\* agent's update of the document sent, that update with a key the schema does
\* not declare, or a document the schema rejects.
TRPCClientError == [k |-> "TRPCClientError"]
AgentResponse(data) ==
    [k |-> "response", newMessage |-> Message("agent", "done"),
     updatedComplianceData |-> data]
Responses(request) ==
    {TRPCClientError, AgentResponse(Undef),
     AgentResponse(AgentUpdate(request.complianceData)),
     AgentResponse(Obj([notes |-> Str("todo")]
                       @@ AgentUpdate(request.complianceData).f)),
     AgentResponse(WithDataPoints(<<OneDataPoint(7)>>))}

\* App with a stored document or none, no stored conversation and a stored
\* repository URL that is not a URL, or none.
ChatInit ==
    /\ agent = NoAgent
    /\ fullData = initialComplianceData
    /\ last = NoCall
    /\ pc = "Raw"
    /\ heap = <<>>
    /\ \E url \in {NoItem, Item(Str("not a url"))},
          data \in {NoItem, Item(WithDataPoints(<<>>))},
          messages \in {NoItem} :
          app = [mounted |-> TRUE, strict |-> TRUE,
                 storage |-> [url |-> url, data |-> data, messages |-> messages],
                 repositoryUrl |-> "", messages |-> <<>>,
                 error |-> NoError, isInitialLoad |-> TRUE, edits |-> 0,
                 requests |-> <<>>, latest |-> 0, input |-> "", stale |-> FALSE,
                 rendered |-> [isPending |-> FALSE, messages |-> <<>>]]

\* The guard of handleSendMessage without the test of isPending.
SendGuardBlankOnly(messageText, isPending) == Trim(messageText) = ""

\* The guard of handleSendMessage: the call returns at once when it holds.
SendGuard(messageText, isPending) == Trim(messageText) = "" \/ isPending

\* The user types into the chat input. The input is not under React's control:
\* no state is set. Typing is an event of its own, and the render a send asked
\* for is committed before the next event is handled.
TypeChat(text) ==
    /\ pc = "Editable" /\ ~app.stale /\ app.input # text /\ app.latest < MaxSends
    /\ app' = [app EXCEPT !.input = text]
    /\ last' = [op |-> "typeChat"]
    /\ UNCHANGED <<fullData, pc, heap, agent>>

\* The submit handler of the chat form: handleSendMessage(input.value), then
\* the input is cleared. The handler is that of the current render: messages
\* and generateResponseMutation.isPending are those the render captured. After
\* a send the state is set and the request is out, and the render that follows
\* is still to come; a second submit event may be handled before it.
Submit ==
    /\ pc = "Editable" /\ app.latest < MaxSends
    /\ LET messageText == app.input
           seenPending == app.rendered.isPending
           urlToUse == IF app.repositoryUrl = "" THEN defaultRepoUrl
                       ELSE app.repositoryUrl
           userMessage == Message("user", messageText)
           outcome == IF SendGuard(messageText, seenPending) THEN "returned"
                      ELSE IF ~UrlValid(urlToUse) THEN "invalidUrl"
                      ELSE "sent"
           handled ==
               CASE outcome = "returned" -> app
                 [] outcome = "invalidUrl" -> [app EXCEPT !.error = ErrUrl]
                 [] OTHER ->
                      [app EXCEPT
                         !.messages = Append(app.rendered.messages, userMessage),
                         !.error = NoError,
                         !.latest = @ + 1,
                         !.stale = TRUE,
                         !.requests =
                             Append(@, [id |-> app.latest + 1,
                                        complianceData |-> fullData,
                                        edited |-> NoEdit])]
       IN  /\ last' = [op |-> "submit", blank |-> Trim(messageText) = "",
                       outcome |-> outcome, seenPending |-> seenPending,
                       inFlight |-> Len(app.requests), stale |-> app.stale]
           /\ app' = [handled EXCEPT !.input = ""]
    /\ UNCHANGED <<fullData, pc, heap, agent>>

\* The render that follows a send, and the effect that saves the messages.
Rerender ==
    /\ pc = "Editable" /\ app.stale
    /\ app' = [app EXCEPT
                 !.stale = FALSE,
                 !.rendered = Rendered(app),
                 !.storage = SaveMessagesEffect(app.isInitialLoad, app.messages, @)]
    /\ last' = [op |-> "render"]
    /\ UNCHANGED <<fullData, pc, heap, agent>>

\* The document after a response whose data is set without the validation.
ResponseDocumentUnchecked(complianceData, data) ==
    IF data # Undef THEN data ELSE complianceData

\* The document after a response with updatedComplianceData = data, lines
\* 269-285: the data safeParse returns when there is data and the schema
\* accepts it, else the document as it is.
ResponseDocument(complianceData, data) ==
    IF data # Undef /\ safeParse("ComplianceContentSchema", data) # ZodError
    THEN safeParse("ComplianceContentSchema", data)
    ELSE complianceData

\* s without its element i.
Settled(s, i) == SubSeq(s, 1, i - 1) \o SubSeq(s, i + 1, Len(s))

\* The rest of handleSendMessage, run when mutateAsync settles for request i:
\* the try block after the await or the catch block, then the render and the
\* save effects.
Respond(i, response) ==
    /\ pc = "Editable" /\ ~app.stale
    /\ LET request == app.requests[i]
           data == IF response = TRPCClientError THEN Undef
                   ELSE response.updatedComplianceData
           validationResult == IF data # Undef
                               THEN safeParse("ComplianceContentSchema", data)
                               ELSE ZodError
           set == data # Undef /\ validationResult # ZodError
           complianceData == ResponseDocument(fullData, data)
           messages == IF response = TRPCClientError THEN app.messages
                       ELSE Append(app.messages, response.newMessage)
           error == IF response = TRPCClientError THEN ErrAgentCall
                    ELSE IF data # Undef /\ ~set THEN ErrAgentData
                    ELSE app.error
           save == IF set
                   THEN SaveDataEffect(app.isInitialLoad, complianceData, app.storage)
                   ELSE [wrote |-> FALSE, storage |-> app.storage]
           settled == [app EXCEPT
                         !.messages = messages,
                         !.error = error,
                         !.requests = Settled(@, i),
                         !.storage = IF response = TRPCClientError THEN save.storage
                                     ELSE SaveMessagesEffect(app.isInitialLoad,
                                                             messages, save.storage)]
       IN  /\ fullData' = complianceData
           /\ app' = [settled EXCEPT !.rendered = Rendered(settled)]
           /\ last' = [op |-> "respond", before |-> fullData, request |-> request,
                       response |-> response, messages |-> app.messages,
                       error |-> app.error]
    /\ pc' = "Editable"
    /\ UNCHANGED <<heap, agent>>

\* The form is edited while the chat is in use: the description of the General
\* tab is typed, laws are added and removed.
ChatNext ==
    \/ Load
    \/ TypeString("general")
    \/ ClickAdd("lawsAndRegulations")
    \/ ClickRemove("lawsAndRegulations")
    \/ \E text \in ChatTexts : TypeChat(text)
    \/ Submit
    \/ Rerender
    \/ \E i \in 1..Len(app.requests) :
       \E response \in Responses(app.requests[i]) : Respond(i, response)

ChatSpec == ChatInit /\ [][ChatNext]_vars

\* The stored text is a document the schema accepts.
StoredValid(item) ==
    /\ Truthy(item) /\ item.parsed # SyntaxError
    /\ Validates("ComplianceContentSchema", item.parsed)
\* The default root document: every field of the schema present, arrays
\* empty, strings empty.
DefaultRoot == generateDefaultValue("ComplianceContentSchema", 0)

\* C17 as stated: a stored document that fails JSON parsing or schema
\* validation leads to the default root document and a warning; a stored
\* document that passes validation becomes the Editable document unchanged in
\* content.
C17_LoadDefaultsOrKeeps ==
    (last.op = "load" /\ Truthy(last.stored)) =>
        IF StoredValid(last.stored)
        THEN pc = "Editable" /\ fullData = last.stored.parsed
        ELSE pc = "Editable" /\ fullData = DefaultRoot /\ app.error # NoError

\* v without the keys the schema does not declare, at every object level.
RECURSIVE DeclaredPart(_, _)
DeclaredPart(s, v) ==
    LET base == getBaseType(s, 0) IN
    CASE Schemas[base].typeName = "ZodObject" /\ v.k = "object" ->
           Obj([key \in DOMAIN v.f \cap DOMAIN Schemas[base].shape |->
                   DeclaredPart(Schemas[base].shape[key], v.f[key])])
      [] Schemas[base].typeName = "ZodArray" /\ v.k = "array" ->
           Arr([i \in 1..Len(v.e) |-> DeclaredPart(Schemas[base].element, v.e[i])])
      [] OTHER -> v

\* C17 as amended: a failed parse or validation leads to the default root
\* document and a warning; a stored document that passes validation becomes
\* the Editable document with the keys the schema declares, their content
\* unchanged, and without the keys the schema does not declare.
C17_LoadDefaultsOrKeepsDeclared ==
    (last.op = "load" /\ Truthy(last.stored)) =>
        IF StoredValid(last.stored)
        THEN /\ pc = "Editable"
             /\ fullData = DeclaredPart("ComplianceContentSchema", last.stored.parsed)
             /\ last.outcome = "Valid"
        ELSE /\ pc = "Editable" /\ fullData = DefaultRoot /\ app.error # NoError
             /\ last.outcome \in {"Unparsed", "Invalid"}

\* C17 happens: a stored document with an undeclared key was loaded and lost
\* that key only.
C17_Witness ==
    /\ last.op = "load" /\ StoredValid(last.stored)
    /\ "mitigations" \in DOMAIN last.stored.parsed.f
    /\ fullData = initialComplianceData
    /\ app.error = NoError
\* A stored document with a rating of 7 was replaced by the default document.
C17_WitnessInvalid ==
    /\ last.op = "load" /\ last.outcome = "Invalid"
    /\ last.stored.parsed = WithDataPoints(<<OneDataPoint(7)>>)
    /\ fullData = initialComplianceData /\ app.error = ErrMismatch

\* Every CIA rating of every data point of the document is a number from 1
\* to 4.
RatingsInRange(document) ==
    LET dataPoints == RawGet(document, <<Name("dataPoints")>>)
    IN  dataPoints.k = "array" =>
            \A i \in 1..Len(dataPoints.e) :
            \A key \in {"confidentiality", "integrity", "availability"} :
                LET rating == RawGet(dataPoints.e[i], <<Name("cia"), Name(key)>>)
                IN  rating.k = "number" /\ rating.n \in 1..4

\* C18: every CIA rating of every data point is a number from 1 to 4 in every
\* state reached from a valid document by form operations: adding a data
\* point, editing a rating through the number field, removing items.
C18_RatingsStayInRange ==
    pc = "Editable" => RatingsInRange(fullData)

\* The operations other than typing into a number field keep the ratings in
\* range, and so does loading.
RatingsKeptByOtherOperations ==
    /\ last.op = "load" => RatingsInRange(fullData)
    /\ (last.op \in {"add", "remove", "string"} /\ RatingsInRange(last.before))
           => RatingsInRange(fullData)

\* The walk of set along path reaches the intermediate at Prefix(path, i):
\* every value above it is an object or an array.
WalkReaches(document, path, i) ==
    \A j \in 0..(i - 1) : IsContainer(RawGet(document, Prefix(path, j)))

\* v is a new container of the kind seg asks for that holds nothing but the
\* entry at seg.
CreatedFor(v, seg) ==
    IF IsIndex(seg)
    THEN /\ v.k = "array" /\ DOMAIN v.p = {}
         /\ Len(v.e) = seg.index + 1
         /\ \A j \in 1..seg.index : v.e[j] = Hole
    ELSE v.k = "object" /\ DOMAIN v.f = {seg.name}

\* C19: auto-vivification in set. An intermediate of the address that is
\* missing in the document (undefined or null) is created as an empty array
\* when the next segment is an integer index and as an empty object when it is
\* a field name, and the walk continues into it; an intermediate that exists
\* and is not null is never replaced.
C19_AutoVivification ==
    last.op = "set" =>
        \A i \in 1..(Len(last.path) - 1) :
            LET was == RawGet(last.before, Prefix(last.path, i))
                now == RawGet(fullData, Prefix(last.path, i))
            IN  /\ (IsNullish(was) /\ WalkReaches(last.before, last.path, i)) =>
                      /\ last.called
                      /\ CreatedFor(now, last.path[i + 1])
                      /\ RawGet(fullData, last.path) = last.value
                /\ ~IsNullish(was) =>
                      /\ now.k = was.k
                      /\ IsContainer(was) =>
                            \A seg \in Segments \ {last.path[i + 1]} :
                                ReadProp(now, seg) = ReadProp(was, seg)

\* C19 happens: an edit of ["items", 0, "name"] in the empty document created
\* the array and the object in it.
C19_Witness ==
    /\ last.op = "set" /\ last.before = EmptyObj
    /\ last.path = <<Name("items"), Index(0), Name("name")>>
    /\ fullData = Obj([items |-> Arr(<<Obj([name |-> last.value])>>)])

\* What synthesize owes a schema by its shape: the empty string for a
\* StringLeaf, the empty array for an Array, for an Object a map whose keys
\* are the field names of the schema, each mapped to synthesize of the shape
\* of that field.
SynthesizedByShape(schema, result) ==
    LET def == Schemas[schema] IN
    CASE def.typeName = "ZodString" -> result = Str("")
      [] def.typeName = "ZodArray" -> result = EmptyArr
      [] def.typeName = "ZodObject" ->
           /\ result.k = "object"
           /\ DOMAIN result.f = DOMAIN def.shape
           /\ \A key \in DOMAIN def.shape :
                 result.f[key] = generateDefaultValue(def.shape[key], 0)
      [] OTHER -> TRUE

\* C20: synthesize returns the empty string for a StringLeaf, the empty array
\* for an Array whatever its element shape, and for an Object a map whose key
\* set is exactly the field names of the schema, each key mapped to synthesize
\* of the shape of that field.
C20_SynthesizeByShape ==
    last.op = "synthesize" => SynthesizedByShape(last.schema, last.result)

\* The same for the schemas on which synthesize returns, and through the
\* wrappers getBaseType strips.
SynthesizeByShapeWhereItReturns ==
    (last.op = "synthesize" /\ last.result # RangeError) =>
        /\ SynthesizedByShape(getBaseType(last.schema, 0), last.result)
        /\ Schemas[getBaseType(last.schema, 0)].typeName = "ZodArray" =>
               Len(last.result.e) = 0
\* --------------------------------------------------------- the number input
\* The number input of the renderer on its own: documents of the stock schema
\* (a number without bounds and one with a min) and of the items schema (a
\* rating with min and max), whole, partial and with values of other kinds.
NumberRoots == {"StockSchema", "ItemsSchema"}
NumberDocs ==
    {EmptyObj, Obj([count |-> Num(2), reserve |-> Num(2)]),
     Obj([count |-> Str("db"), reserve |-> Null]), Obj([reserve |-> Num(9)]),
     Obj([items |-> EmptyArr]),
     Obj([items |-> Arr(<<Obj([name |-> Str("db"), rating |-> Num(2)])>>)]),
     Obj([items |-> Arr(<<Obj([name |-> Str("db")]), Null>>)])}

\* What e.target.value can be: the texts typed into a form and a text that
\* holds no number.
NumberTexts == TypedNumbers \cup {"abc"}

NumberInit ==
    /\ agent = NoAgent
    /\ fullData \in NumberDocs
    /\ last = NoCall
    /\ pc = "idle"
    /\ heap = <<>>
    /\ app = NoApp

\* The number nodes of a render.
NumberNodes(nodes) == {n \in nodes : n.kind = "number"}

\* A change event of the number input of a number node of the render of a
\* field of root; the renderer is then rendered with the new document, and the
\* input can be changed once more.
ChangeNumber(root) ==
    /\ pc \in {"idle", "changed"}
    /\ \E key \in DOMAIN Schemas[root].shape :
       \E n \in NumberNodes(Build(root, fullData, <<Name(key)>>)) :
       \E text \in NumberTexts :
           LET r == NumberOnChange(fullData, n, text)
           IN  /\ fullData' = r.newData
               /\ last' = [op |-> "number", before |-> fullData, path |-> n.path,
                           schema |-> n.schema, text |-> text,
                           called |-> r.called, threw |-> r.threw]
    /\ pc' = IF pc = "idle" THEN "changed" ELSE "done"
    /\ UNCHANGED <<heap, app, agent>>

NumberNext == \E root \in NumberRoots : ChangeNumber(root)

NumberSpec == NumberInit /\ [][NumberNext]_vars

\* ---------------------------------------------------------------- the agent
\* generateAgentResponse(input), step by step: the steps are the stretches of
\* the function between two awaits.

\* The documents of a request. The router has parsed the request against
\* AgentRequestSchema, so complianceData passes ComplianceContentSchema.
AgentDocs ==
    {initialComplianceData, WithDataPoints(<<>>), WithDataPoints(<<OneDataPoint(1)>>),
     WithDataPoints(<<OneDataPoint(2)>>), WithDataPoints(<<OneDataPoint(5)>>)}

\* new TRPCError({code, message}) and an error of any other class.
TRPCError(code, message) == [k |-> "TRPCError", code |-> code, message |-> message]
Error(message) == [k |-> "Error", message |-> message]
ErrNoLlm == "LLM provider not configured."
ErrAgentFailed == "Failed to get response from LLM agent"

\* The texts of the message generateAgentResponse answers with.
TextSorry == "Sorry, I encountered an issue generating the response. Please check the logs."
TextUpdated == "I've updated the compliance data based on your request and my findings."
TextTrouble == "I gathered some information, but had trouble formatting the final compliance data update."

\* The content of a message of the agent: a text, given by what JSON.parse
\* makes of it (blank: a text of white space only), or a list of content blocks.
Content(parsed) == [k |-> "text", blank |-> FALSE, parsed |-> parsed]
BlankContent == [k |-> "text", blank |-> TRUE, parsed |-> SyntaxError]
ContentBlocks == [k |-> "blocks"]
AIMessage(content) == [k |-> "AIMessage", content |-> content]

\* What agentResult.messages[agentResult.messages.length - 1] can be for a
\* request: nothing, a message whose content is no string, a blank text, a text
\* that is no JSON, the JSON of the agent's update of the document of the
\* request, that with a key the schema does not declare, the JSON of a document
\* the schema rejects, and the JSON of something that is no document.
LastMessages(input) ==
    {Undef, AIMessage(ContentBlocks), AIMessage(BlankContent),
     AIMessage(Content(SyntaxError)),
     AIMessage(Content(AgentUpdate(input.complianceData))),
     AIMessage(Content(Obj([notes |-> Str("todo")]
                           @@ AgentUpdate(input.complianceData).f))),
     AIMessage(Content(WithDataPoints(<<OneDataPoint(7)>>))),
     AIMessage(Content(Str("done")))}

\* The test of the final message: it is missing, its content is no string, or
\* the content is blank.
NoFinalText(lastMessage) ==
    \/ lastMessage = Undef
    \/ lastMessage.content.k # "text"
    \/ lastMessage.content.blank

OutputParserException == [k |-> "OutputParserException"]
\* A parser that takes any JSON text for a document.
ParserParseAnyJson(responseContent) ==
    IF responseContent.parsed = SyntaxError THEN OutputParserException
    ELSE responseContent.parsed

\* parser.parse(responseContent) of the parser made from
\* ComplianceContentSchema: the parsed data, or the exception it throws when
\* the text is no JSON or the schema rejects what the text holds.
ParserParse(responseContent) ==
    IF responseContent.parsed = SyntaxError THEN OutputParserException
    ELSE LET r == safeParse("ComplianceContentSchema", responseContent.parsed)
         IN  IF r = ZodError THEN OutputParserException ELSE r

\* How a call ends: not yet, with a returned value, or with a thrown error.
Running == [k |-> "running"]
Return(value) == [k |-> "return", value |-> value]
Throw(error) == [k |-> "throw", error |-> error]

\* The catch block: a TRPCError is thrown on, any other error is wrapped.
CatchError(error) ==
    IF error.k = "TRPCError" THEN Throw(error)
    ELSE Throw(TRPCError("INTERNAL_SERVER_ERROR", ErrAgentFailed))

\* The function that stops the MCP servers, and mcpCleanup before it is set.
McpServerCleanupFn == [k |-> "function"]

\* A call of generateAgentResponse at its first line. servers: whether the MCP
\* servers of this call run; cleanups: the calls of the cleanup function;
\* invoked: whether agent.invoke has resolved.
AgentInit ==
    /\ \E doc \in AgentDocs :
          agent = [called |-> TRUE, input |-> [complianceData |-> doc],
                   mcpCleanup |-> Undef, servers |-> FALSE, cleanups |-> 0,
                   invoked |-> FALSE, lastMessage |-> Undef, responseContent |-> Undef,
                   parsed |-> Undef, completion |-> Running]
    /\ fullData = initialComplianceData
    /\ last = NoCall
    /\ pc = "getLlm"
    /\ heap = <<>>
    /\ app = NoApp

\* const llm = getLlm(): before the try. Without credentials getLlm throws,
\* and the call ends there.
GetLlm ==
    /\ pc = "getLlm"
    /\ \E configured \in BOOLEAN :
          IF configured
          THEN /\ pc' = "convert"
               /\ UNCHANGED agent
          ELSE /\ pc' = "thrown"
               /\ agent' = [agent EXCEPT !.completion =
                               Throw(TRPCError("INTERNAL_SERVER_ERROR", ErrNoLlm))]
    /\ UNCHANGED <<fullData, last, heap, app>>

\* await convertMcpToLangchainTools(mcpServers): it resolves with the tools
\* and the cleanup function, which is then kept in mcpCleanup, or it rejects,
\* which the catch block handles.
ConvertTools ==
    /\ pc = "convert"
    /\ \E created \in BOOLEAN :
          IF created
          THEN /\ agent' = [agent EXCEPT !.mcpCleanup = McpServerCleanupFn,
                                         !.servers = TRUE]
               /\ pc' = "invoke"
          ELSE /\ agent' = [agent EXCEPT !.completion =
                               CatchError(Error("spawn npx ENOENT"))]
               /\ pc' = "finally"
    /\ UNCHANGED <<fullData, last, heap, app>>

\* What the function returns for a final message without text.
SorryResponse ==
    [newMessage |-> Message("agent", TextSorry), updatedComplianceData |-> Undef]

\* await agent.invoke(...), and the test of the final message that follows it:
\* the call rejects, or it resolves with its messages.
Invoke ==
    /\ pc = "invoke"
    /\ \E result \in {Error("429 rate limit")} \cup LastMessages(agent.input) :
          IF result = Error("429 rate limit")
          THEN /\ agent' = [agent EXCEPT !.completion = CatchError(result)]
               /\ pc' = "finally"
          ELSE IF NoFinalText(result)
          THEN /\ agent' = [agent EXCEPT !.invoked = TRUE, !.lastMessage = result,
                                         !.completion = Return(SorryResponse)]
               /\ pc' = "finally"
          ELSE /\ agent' = [agent EXCEPT !.invoked = TRUE, !.lastMessage = result,
                                         !.responseContent = result.content]
               /\ pc' = "parse"
    /\ UNCHANGED <<fullData, last, heap, app>>

\* What the function returns after parser.parse: the data and the message of
\* an update, or no data and the message with the raw response.
ParsedResponse(parsed) ==
    IF parsed = OutputParserException
    THEN [newMessage |-> Message("agent", TextTrouble), updatedComplianceData |-> Undef]
    ELSE [newMessage |-> Message("agent", TextUpdated), updatedComplianceData |-> parsed]

\* await parser.parse(responseContent) in its own try, and the return.
Parse ==
    /\ pc = "parse"
    /\ LET parsed == ParserParse(agent.responseContent)
       IN  agent' = [agent EXCEPT !.parsed = parsed,
                                  !.completion = Return(ParsedResponse(parsed))]
    /\ pc' = "finally"
    /\ UNCHANGED <<fullData, last, heap, app>>

\* A finally block that calls nothing.
NoCleanup(mcpCleanup, cleanups) == cleanups

\* await mcpCleanup?.(): the calls of the cleanup function after the finally
\* block.
CleanupCalls(mcpCleanup, cleanups) ==
    IF mcpCleanup = Undef THEN cleanups ELSE cleanups + 1

\* The finally block, after which the call returns or throws what the try or
\* the catch block left.
Finally ==
    /\ pc = "finally"
    /\ LET cleanups == CleanupCalls(agent.mcpCleanup, agent.cleanups)
       IN  agent' = [agent EXCEPT !.cleanups = cleanups,
                                  !.servers = IF cleanups > agent.cleanups
                                              THEN FALSE ELSE agent.servers]
    /\ pc' = IF agent.completion.k = "return" THEN "returned" ELSE "thrown"
    /\ UNCHANGED <<fullData, last, heap, app>>

AgentNext == GetLlm \/ ConvertTools \/ Invoke \/ Parse \/ Finally

AgentSpec == AgentInit /\ [][AgentNext]_vars

\* ------------------------------------------------------------ claims C21..C30
\* The schemas that carry a default value (z.default).
IsWrapped(s) == Schemas[s].typeName = "ZodDefault"

\* C21: the value generateDefaultValue returns for a schema that carries a
\* default is the value it returns for the schema inside, whatever the inner
\* schema and the carried value are; the carried value is returned only where
\* the inner schema yields the same value by itself.
C21_WrappedSynthesizesInner ==
    (last.op = "synthesize" /\ IsWrapped(last.schema)) =>
        /\ last.result = generateDefaultValue(Schemas[last.schema].innerType, 0)
        /\ (last.result = Schemas[last.schema].defaultValue =>
               generateDefaultValue(Schemas[last.schema].innerType, 0)
                   = Schemas[last.schema].defaultValue)

\* A default over a string leaf has been synthesized: the result is "" and not
\* the carried "n/a".
C21_Witness ==
    /\ last.op = "synthesize" /\ last.schema = "DefaultedName"
    /\ last.result = Str("") /\ Schemas[last.schema].defaultValue = Str("n/a")

\* A default over an object schema has been synthesized.
C21_WitnessObject ==
    /\ last.op = "synthesize" /\ last.schema = "DefaultedGeneral"
    /\ last.result = Obj([description |-> Str("")])

\* The node built at path, if any, is of the terminal shape of schema s.
ChildBuilt(nodes, path, s) ==
    LET terminal == TerminalShape(s, MaxStack)
    IN  \E c \in nodes :
            c.path = path /\ c.schema = terminal /\ c.kind = NodeKind(terminal)

\* Every object node of a tree has a child per field, every array node a child
\* per element, each at the parent's address extended by the field name or the
\* index and of the terminal shape of the field's or the element's schema.
ChildrenAddressed(nodes) ==
    \A n \in nodes :
        /\ n.kind = "object" =>
               \A key \in DOMAIN Schemas[n.schema].shape :
                   ChildBuilt(nodes, Append(n.path, Name(key)),
                              Schemas[n.schema].shape[key])
        /\ n.kind = "array" =>
               \A i \in RenderedIndices(n.data) :
                   ChildBuilt(nodes, Append(n.path, Index(i - 1)),
                              Schemas[n.schema].element)

\* C22: in the tree build returns, from every starting address and from the
\* default empty address too, each child of an object node has the parent's
\* address plus the field name and the terminal shape of the field's schema,
\* and each child of an array node the parent's address plus the index and the
\* terminal shape of the element schema.
C22_BuildExtendsAddresses ==
    (last.op = "build" /\ ~last.threw) => ChildrenAddressed(last.nodes)

\* The same for the builds App starts, at the path of one field of the root,
\* over schemas without an optional layer.
BuildExtendsAddressesFromField ==
    ( /\ last.op = "build" /\ ~last.threw /\ Len(last.start) = 1
      /\ \A x \in Reachable({last.root}, {}) : Schemas[x].typeName # "ZodOptional" )
    => ChildrenAddressed(last.nodes)

\* A build from the path of a field that holds an array of objects: the tree
\* has nodes three levels below its start.
BuildFromFieldReachesLeaves ==
    /\ last.op = "build" /\ last.start = <<Name("items")>>
    /\ \E n \in last.nodes : n.kind = "number" /\ Len(n.path) = 3

\* The operations of the form.
FormOps == {"string", "number", "add", "remove"}

\* The form of every tab is rendered from the document without an error node:
\* set, insert and remove apply to it.
FormRendered ==
    \A tab \in TABS : \A n \in TabNodes(tab) :
        n.kind \notin {"RangeError", "invalidInitialPath", "schemaNotFound"}

LoadedOrDefaulted(item) ==
    IF StoredValid(item)
    THEN DeclaredPart("ComplianceContentSchema", item.parsed)
    ELSE initialComplianceData

C24_WitnessEdit ==
    /\ last.op = "string" /\ last.called /\ fullData # last.before
    /\ app.storage.data = Item(fullData)
    /\ fullData # initialComplianceData

\* mutateAsync settled with a response (not a rejection) and the rest of
\* handleSendMessage ran.
Responded == last.op = "respond" /\ last.response # TRPCClientError

C25_WitnessInvalid ==
    /\ Responded
    /\ last.response.updatedComplianceData = WithDataPoints(<<OneDataPoint(7)>>)
    /\ fullData = last.before /\ app.error = ErrAgentData /\ last.error = NoError

\* A response without data was processed.
C25_WitnessMissing ==
    /\ Responded /\ last.response.updatedComplianceData = Undef
    /\ fullData = last.before /\ Len(app.messages) = Len(last.messages) + 1

\* C26: at most one agent request is in flight at any time. handleSendMessage
\* sends nothing when the message is blank or while a request is pending,
\* whatever the order of submits, renders and responses, two submits before
\* the next render included.
C26_SingleRequestInFlight ==
    /\ Len(app.requests) <= 1
    /\ (last.op = "submit" /\ (last.blank \/ last.inFlight > 0)) =>
           last.outcome # "sent"

\* A second submit was handled before the render that follows a send, and
\* sent nothing.
C26_Witness ==
    /\ last.op = "submit" /\ last.stale /\ ~last.seenPending
    /\ last.inFlight = 1 /\ last.outcome = "returned" /\ Len(app.requests) = 1

\* A message typed while a request was pending was submitted and not sent.
C26_WitnessPending ==
    /\ last.op = "submit" /\ ~last.blank /\ last.seenPending
    /\ last.outcome = "returned" /\ Len(app.requests) = 1

\* The form was edited while the request now answered was pending.
EditedWhilePending == last.op = "respond" /\ last.request.edited # NoEdit
\* The value the last of those edits wrote is still at its path.
EditPresent ==
    RawGet(fullData, last.request.edited.path) = last.request.edited.value

\* C27: a form edit applied to the document while an agent request is pending
\* is still in the document after the response to that request has been
\* processed, whatever the order of edits, send and response.
C27_EditsSurviveResponse == EditedWhilePending => EditPresent

\* The same where the response sets no document: a rejection, a response
\* without data or with data the schema rejects.
EditsSurviveResponseWithoutData ==
    ( /\ EditedWhilePending
      /\ ResponseDocument(last.before,
                          IF last.response = TRPCClientError THEN Undef
                          ELSE last.response.updatedComplianceData) = last.before )
    => EditPresent

\* An edit made while a request was pending was replaced by the agent's
\* update of the document sent with the request.
EditLostToResponse ==
    /\ EditedWhilePending /\ ~EditPresent
    /\ last.before # last.request.complianceData
    /\ fullData = AgentUpdate(last.request.complianceData)

\* The call of generateAgentResponse has ended.
Exited == agent.called /\ pc \in {"returned", "thrown"}

\* C28: in a call of generateAgentResponse the cleanup function of the MCP
\* tools is never called twice; when the call ends, it has been called once if
\* the tools were created (a cleanup function was kept), whether the call
\* returns or throws, and not at all otherwise; no MCP server is left running.
C28_CleanupExactlyOnce ==
    agent.called =>
        /\ agent.cleanups <= 1
        /\ Exited => /\ agent.cleanups = (IF agent.mcpCleanup # Undef THEN 1 ELSE 0)
                     /\ ~agent.servers

\* The call returned an update after one call of the cleanup function.
C28_Witness ==
    /\ Exited /\ pc = "returned" /\ agent.cleanups = 1
    /\ agent.completion.value.updatedComplianceData # Undef

\* The early return for a final message without text, after one cleanup.
C28_WitnessEarlyReturn ==
    /\ Exited /\ agent.completion = Return(SorryResponse) /\ agent.cleanups = 1

\* The return after a parse failure, after one cleanup.
C28_WitnessParseFailure ==
    /\ Exited /\ agent.parsed = OutputParserException /\ agent.cleanups = 1

\* agent.invoke failed and the call threw, after one cleanup.
C28_WitnessThrown ==
    /\ Exited /\ pc = "thrown" /\ agent.mcpCleanup # Undef /\ agent.cleanups = 1

\* The creation of the tools failed and the call threw without a cleanup.
C28_WitnessNotCreated ==
    /\ Exited /\ pc = "thrown" /\ agent.mcpCleanup = Undef
    /\ agent.completion.error.message = ErrAgentFailed /\ agent.cleanups = 0

\* The final message holds the JSON of a document ComplianceContentSchema
\* accepts.
FinalMessageParses ==
    /\ ~NoFinalText(agent.lastMessage)
    /\ agent.lastMessage.content.parsed # SyntaxError
    /\ Validates("ComplianceContentSchema", agent.lastMessage.content.parsed)

\* C29: a call of generateAgentResponse throws exactly when getLlm, the
\* creation of the tools or agent.invoke failed, and what it throws is a
\* TRPCError with code INTERNAL_SERVER_ERROR. Once agent.invoke has resolved
\* the call returns a message with role "agent"; updatedComplianceData is in
\* the returned value exactly when the final message is a text that parses
\* against ComplianceContentSchema, and is then the parsed document.
C29_DataOnlyWhenParsed ==
    Exited =>
        IF pc = "thrown"
        THEN /\ ~agent.invoked
             /\ agent.completion.error.k = "TRPCError"
             /\ agent.completion.error.code = "INTERNAL_SERVER_ERROR"
        ELSE /\ agent.invoked
             /\ agent.completion.value.newMessage.f.role = Str("agent")
             /\ IF FinalMessageParses
                THEN agent.completion.value.updatedComplianceData =
                         safeParse("ComplianceContentSchema",
                                   agent.lastMessage.content.parsed)
                ELSE agent.completion.value.updatedComplianceData = Undef

\* The final message held a document the schema rejects: the call returned the
\* message about the raw response and no data.
C29_Witness ==
    /\ Exited /\ pc = "returned"
    /\ agent.lastMessage = AIMessage(Content(WithDataPoints(<<OneDataPoint(7)>>)))
    /\ agent.completion.value =
           [newMessage |-> Message("agent", TextTrouble), updatedComplianceData |-> Undef]

\* There was no final message: the call returned the apology and no data.
C29_WitnessMissing ==
    /\ Exited /\ agent.invoked /\ agent.lastMessage = Undef
    /\ agent.completion = Return(SorryResponse)

\* The final message parsed: the call returned the document, without the key
\* the schema does not declare.
C29_WitnessParsed ==
    /\ Exited /\ FinalMessageParses
    /\ "notes" \in DOMAIN agent.lastMessage.content.parsed.f
    /\ agent.completion.value.updatedComplianceData =
           AgentUpdate(agent.input.complianceData)

\* agent.invoke failed: the call threw INTERNAL_SERVER_ERROR.
C29_WitnessThrown ==
    /\ Exited /\ pc = "thrown" /\ agent.mcpCleanup # Undef /\ ~agent.invoked
    /\ agent.completion = Throw(TRPCError("INTERNAL_SERVER_ERROR", ErrAgentFailed))

\* C30: a change of a number input writes at the path of its leaf the integer
\* parseInt reads from the text when it reads one; for a text without a number
\* (the empty text included) it writes the min the leaf declares; when the
\* text holds no number and the leaf declares no min, nothing is written and
\* the document is the one before.
C30_NumberInputWritesInteger ==
    last.op = "number" =>
        IF parseInt(last.text) # NaN
        THEN last.called /\ RawGet(fullData, last.path) = parseInt(last.text)
        ELSE IF DeclaredMin(last.schema) # {}
        THEN /\ last.called
             /\ RawGet(fullData, last.path) \in {Num(m) : m \in DeclaredMin(last.schema)}
        ELSE ~last.called /\ fullData = last.before

\* "2.5" was typed into a number input: 2 was written.
C30_Witness ==
    /\ last.op = "number" /\ last.text = "2.5" /\ last.called
    /\ RawGet(fullData, last.path) = Num(2) /\ RawGet(last.before, last.path) # Num(2)

\* A text without a number in the input of a leaf with a min: the min was
\* written.
C30_WitnessMin ==
    /\ last.op = "number" /\ last.text \in {"", "abc"} /\ last.schema = "AtLeastTwo"
    /\ RawGet(last.before, last.path) = Num(9) /\ RawGet(fullData, last.path) = Num(2)

\* A text without a number in the input of a leaf without a min: no edit.
C30_WitnessNoEdit ==
    /\ last.op = "number" /\ last.text \in {"", "abc"} /\ last.schema = "PlainNumber"
    /\ ~last.called /\ fullData = last.before

====
